---- MODULE Spec2Model ----
(***************************************************************************)
(* Model of the Protocol Buffers dissector                                 *)
(* (epan/dissectors/packet-protobuf.c).                                    *)
(*                                                                         *)
(* The dissector is a sequential program: dissect_protobuf is entered once *)
(* per packet, dissect_protobuf_message loops over the fields of a byte    *)
(* range and dissect_one_protobuf_field decodes one field, recursing into  *)
(* dissect_protobuf_message for a nested message.  The recursion is kept   *)
(* as an explicit stack of message frames; one step of the model is one    *)
(* call of dissect_one_protobuf_field, or one return of                    *)
(* dissect_protobuf_message.                                               *)
(*                                                                         *)
(* 64-bit quantities are kept as four 16-bit limbs, least significant      *)
(* first (<<w0, w1, w2, w3>>), 32-bit quantities as two limbs, so that     *)
(* truncations and sign bits are those of the C types.  A guint that is    *)
(* used as an offset or a length is an integer; every input of the model   *)
(* keeps bit 31 of such a guint clear.                                     *)
(***************************************************************************)
EXTENDS Integers, Sequences, FiniteSets, TLC

VARIABLES
    queue,      \* packets still to be dissected, the current one first
    pinfo,      \* what the caller hands over: data, pb_msg_type, ptype and the ports
    udp_message_types,  \* the table of UDP port ranges and message types
    top_desc,   \* message_desc of dissect_protobuf for the current packet (or NULL)
    udp_lookup, \* whether find_message_type_by_udp_port was called for the packet
    schema,     \* descriptor of field 1 of message "M" in the descriptor pool
    prefs,      \* the three preferences
    pc,         \* "idle", "run", "done" or "exception"
    tvb,        \* the bytes of the packet being dissected
    stack,      \* frames of dissect_protobuf_message, innermost last
    tree,       \* the protocol tree: the nodes in the order they were added
    expert,     \* the expert infos in the order they were added
    calls,      \* one record per call of dissect_one_protobuf_field
    msgs,       \* one record per return of dissect_protobuf_message
    archive,    \* the results of the packets dissected before
    old_udp_port_ranges,    \* the copies of the port ranges the dissector was added to
    udp_port,   \* the dissector table "udp.port": the ports that lead to protobuf_handle
    reinit_pc,  \* where protobuf_reinit is: "idle" (not running), "delete" or "add"
    loading_completed,      \* whether protobuf_reinit loaded the .proto files
    report      \* the failures protobuf_reinit reported in its last run

\* what the dissection of packets works on
dissect_vars == <<queue, pinfo, top_desc, udp_lookup, schema, prefs, pc, tvb, stack, tree, expert,
                  calls, msgs, archive>>

\* what protobuf_reinit works on, apart from udp_message_types
reinit_vars == <<old_udp_port_ranges, udp_port, reinit_pc, loading_completed, report>>

vars == <<queue, pinfo, udp_message_types, top_desc, udp_lookup, schema, prefs, pc, tvb, stack,
          tree, expert, calls, msgs, archive, old_udp_port_ranges, udp_port, reinit_pc,
          loading_completed, report>>

NULL == "NULL"

(***************************************************************************)
(* Field types (protobuf-helper.h) and wire types.                         *)
(***************************************************************************)
PROTOBUF_TYPE_NONE == "NONE"
PROTOBUF_TYPE_DOUBLE == "DOUBLE"
PROTOBUF_TYPE_FLOAT == "FLOAT"
PROTOBUF_TYPE_INT64 == "INT64"
PROTOBUF_TYPE_UINT64 == "UINT64"
PROTOBUF_TYPE_INT32 == "INT32"
PROTOBUF_TYPE_FIXED64 == "FIXED64"
PROTOBUF_TYPE_FIXED32 == "FIXED32"
PROTOBUF_TYPE_BOOL == "BOOL"
PROTOBUF_TYPE_STRING == "STRING"
PROTOBUF_TYPE_GROUP == "GROUP"
PROTOBUF_TYPE_MESSAGE == "MESSAGE"
PROTOBUF_TYPE_BYTES == "BYTES"
PROTOBUF_TYPE_UINT32 == "UINT32"
PROTOBUF_TYPE_ENUM == "ENUM"
PROTOBUF_TYPE_SFIXED32 == "SFIXED32"
PROTOBUF_TYPE_SFIXED64 == "SFIXED64"
PROTOBUF_TYPE_SINT32 == "SINT32"
PROTOBUF_TYPE_SINT64 == "SINT64"

FieldTypes ==
    { PROTOBUF_TYPE_DOUBLE, PROTOBUF_TYPE_FLOAT, PROTOBUF_TYPE_INT64, PROTOBUF_TYPE_UINT64,
      PROTOBUF_TYPE_INT32, PROTOBUF_TYPE_FIXED64, PROTOBUF_TYPE_FIXED32, PROTOBUF_TYPE_BOOL,
      PROTOBUF_TYPE_STRING, PROTOBUF_TYPE_GROUP, PROTOBUF_TYPE_MESSAGE, PROTOBUF_TYPE_BYTES,
      PROTOBUF_TYPE_UINT32, PROTOBUF_TYPE_ENUM, PROTOBUF_TYPE_SFIXED32, PROTOBUF_TYPE_SFIXED64,
      PROTOBUF_TYPE_SINT32, PROTOBUF_TYPE_SINT64 }

PROTOBUF_WIRETYPE_VARINT == 0
PROTOBUF_WIRETYPE_FIXED64 == 1
PROTOBUF_WIRETYPE_LENGTH_DELIMITED == 2
PROTOBUF_WIRETYPE_START_GROUP == 3
PROTOBUF_WIRETYPE_END_GROUP == 4
PROTOBUF_WIRETYPE_FIXED32 == 5

(***************************************************************************)
(* Fixed-width integers as limbs.                                          *)
(***************************************************************************)
U64Zero == <<0, 0, 0, 0>>

BitOf(b, k) == (b \div (2 ^ k)) % 2

RECURSIVE LimbOf(_, _)
LimbOf(bit, i) == IF i < 0 THEN 0 ELSE bit[i] * (2 ^ i) + LimbOf(bit, i - 1)

\* (guint32) v and (gint32) v: the low 32 bits of a 64-bit value
Low32(v) == <<v[1], v[2]>>

\* a guint used as an offset or a length
GuintToNat(w) == w[1] + 65536 * w[2]

\* v >> 3 on 64 bits
ShiftRight3(v) ==
    [j \in 1..4 |-> (v[j] \div 8) + (IF j < 4 THEN (v[j + 1] % 8) * 8192 ELSE 0)]

\* v <= 0xFFFFFFFF
FitsUint32(v) == v[3] = 0 /\ v[4] = 0

\* bitwise complement of a sequence of limbs
Complement(w) == [j \in DOMAIN w |-> 65535 - w[j]]

\* a sequence of limbs shifted right by one bit, zero filled
ShiftRight1(w) ==
    [j \in DOMAIN w |-> (w[j] \div 2) + (IF j < Len(w) THEN (w[j + 1] % 2) * 32768 ELSE 0)]

(***************************************************************************)
(* The byte range (tvbuff): bounded reads.  A read that would leave the    *)
(* buffer fails: an exception thrown through the dissector in the program, *)
(* a result marked exc here.                                               *)
(***************************************************************************)
FT_VARINT_MAX_LEN == 10

tvb_bytes_exist(buf, offset, length) == offset + length <= Len(buf)

\* the number of bytes of the varint at offset, 0 when none ends within
\* maxlen and FT_VARINT_MAX_LEN bytes, -1 when a byte read leaves the buffer
RECURSIVE varint_scan(_, _, _, _)
varint_scan(buf, offset, maxlen, i) ==
    IF i >= FT_VARINT_MAX_LEN \/ i >= maxlen THEN 0
    ELSE IF ~tvb_bytes_exist(buf, offset + i, 1) THEN -1
    ELSE IF buf[offset + i + 1] < 128 THEN i + 1
    ELSE varint_scan(buf, offset, maxlen, i + 1)

\* the 64-bit value of the n-byte varint at offset: byte g gives bits 7g..7g+6,
\* bits beyond 63 are lost
varint_value(buf, offset, n) ==
    [j \in 1..4 |->
        LimbOf([k \in 0..15 |->
                  LET p == 16 * (j - 1) + k
                      g == p \div 7
                  IN  IF g < n THEN BitOf(buf[offset + g + 1], p % 7) ELSE 0], 15)]

tvb_get_varint(buf, offset, maxlen) ==
    LET n == varint_scan(buf, offset, maxlen, 0)
    IN  [length |-> n,
         value |-> IF n > 0 THEN varint_value(buf, offset, n) ELSE U64Zero]

\* little-endian reads; exc is set, and nothing is read, when the bytes do not exist
tvb_get_letoh64(buf, offset) ==
    IF ~tvb_bytes_exist(buf, offset, 8) THEN [exc |-> TRUE, value |-> U64Zero]
    ELSE [exc |-> FALSE,
          value |-> [j \in 1..4 |-> buf[offset + 2 * j - 1] + 256 * buf[offset + 2 * j]]]

tvb_get_letohl(buf, offset) ==
    IF ~tvb_bytes_exist(buf, offset, 4) THEN [exc |-> TRUE, value |-> U64Zero]
    ELSE [exc |-> FALSE,
          value |-> [j \in 1..4 |->
                       IF j <= 2 THEN buf[offset + 2 * j - 1] + 256 * buf[offset + 2 * j] ELSE 0]]

(***************************************************************************)
(* The schema view: message "M" of the pool has one field, number 1,       *)
(* described by schema.                                                    *)
(***************************************************************************)
\* no field descriptor (a NULL PbwFieldDescriptor*)
NoField ==
    [found |-> FALSE, name |-> NULL, type |-> PROTOBUF_TYPE_NONE, is_packed |-> FALSE,
     is_repeated |-> FALSE, message_type |-> NULL]

\* FindFieldByNumber takes an int: number is the low 32 bits of the field number
pbw_Descriptor_FindFieldByNumber(message_desc, number) ==
    IF message_desc = "M" /\ number = <<1, 0>> THEN schema ELSE NoField

pbw_FieldDescriptor_message_type(field_desc) == field_desc.message_type

(***************************************************************************)
(* Zig-zag decoding.                                                       *)
(***************************************************************************)
\* the shift without the sign mask
sint32_decode_unsigned(sint32) == ShiftRight1(sint32)

\* (sint32 >> 1) ^ ((gint32)sint32 << 31 >> 31): the mask is all ones iff bit 0 is set
sint32_decode(sint32) ==
    IF sint32[1] % 2 = 1 THEN Complement(ShiftRight1(sint32)) ELSE ShiftRight1(sint32)

sint64_decode(sint64) ==
    IF sint64[1] % 2 = 1 THEN Complement(ShiftRight1(sint64)) ELSE ShiftRight1(sint64)

(***************************************************************************)
(* The protocol tree.  A node is named by its index in tree; parent 0 is   *)
(* the caller's tree.  text holds what proto_item_append_text added to a   *)
(* Field item: the names of the field types the value was dissected as.    *)
(***************************************************************************)
Node(hf, parent, start, length, value) ==
    [hf |-> hf, parent |-> parent, start |-> start, length |-> length,
     value |-> value, text |-> <<>>]

Expert(kind, node) == [kind |-> kind, node |-> node]

\* the state a dissection routine works on: the tree and expert infos, the
\* nested message it is to enter (call), whether a read threw (exc), and what
\* dissect_packed_repeated_field_values returned (-1: it was not called)
NoCall == [desc |-> NULL, offset |-> 0, length |-> 0, ti_field |-> 0]

Work(tr, ex) == [tree |-> tr, expert |-> ex, call |-> NoCall, exc |-> FALSE, packed_ret |-> -1]

(***************************************************************************)
(* protobuf_dissect_field_value: dissect a value as one field type.        *)
(***************************************************************************)
\* the item the switch adds for field_type
value_hf(field_type) ==
    CASE field_type = PROTOBUF_TYPE_DOUBLE -> "protobuf.field.value.double"
      [] field_type = PROTOBUF_TYPE_FLOAT -> "protobuf.field.value.float"
      [] field_type \in {PROTOBUF_TYPE_INT64, PROTOBUF_TYPE_SFIXED64, PROTOBUF_TYPE_SINT64}
            -> "protobuf.field.value.int64"
      [] field_type \in {PROTOBUF_TYPE_UINT64, PROTOBUF_TYPE_FIXED64}
            -> "protobuf.field.value.uint64"
      [] field_type \in {PROTOBUF_TYPE_INT32, PROTOBUF_TYPE_SFIXED32, PROTOBUF_TYPE_ENUM,
                         PROTOBUF_TYPE_SINT32}
            -> "protobuf.field.value.int32"
      [] field_type = PROTOBUF_TYPE_BOOL -> "protobuf.field.value.bool"
      [] field_type \in {PROTOBUF_TYPE_BYTES, PROTOBUF_TYPE_STRING}
            -> "protobuf.field.value.string"
      [] field_type \in {PROTOBUF_TYPE_UINT32, PROTOBUF_TYPE_FIXED32}
            -> "protobuf.field.value.uint32"
      [] OTHER -> NULL

\* the value the item carries
typed_value(buf, offset, length, field_type, value) ==
    CASE field_type \in {PROTOBUF_TYPE_DOUBLE, PROTOBUF_TYPE_INT64, PROTOBUF_TYPE_SFIXED64,
                         PROTOBUF_TYPE_UINT64, PROTOBUF_TYPE_FIXED64}
            -> value
      [] field_type = PROTOBUF_TYPE_SINT64 -> sint64_decode(value)
      [] field_type = PROTOBUF_TYPE_SINT32 -> sint32_decode(Low32(value))
      [] field_type \in {PROTOBUF_TYPE_BYTES, PROTOBUF_TYPE_STRING}
            -> SubSeq(buf, offset + 1, offset + length)
      [] OTHER -> Low32(value)

\* a boolean dissected whatever its length
bool_always_dissected(length) == TRUE

\* "boolean should not use more than one bytes"
bool_is_dissected(length) == ~(length > 1)

\* whether the switch adds an item for field_type
adds_item(length, field_type) ==
    CASE field_type = PROTOBUF_TYPE_BOOL -> bool_is_dissected(length)
      [] field_type = PROTOBUF_TYPE_BYTES -> prefs.dissect_bytes_as_string
      [] field_type \in {PROTOBUF_TYPE_GROUP, PROTOBUF_TYPE_MESSAGE} -> FALSE
      [] OTHER -> value_hf(field_type) # NULL

\* add_datatype: every field type but an unknown one is named in the Field's text
add_datatype(field_type) == field_type \in FieldTypes

\* no nested message dissected
nested_message_skipped(sub_message_desc, offset, length, ti_field) ==
    [desc |-> NULL, offset |-> offset, length |-> length, ti_field |-> ti_field]

\* the nested message dissected from the start of the buffer
nested_message_from_start(sub_message_desc, offset, length, ti_field) ==
    [desc |-> sub_message_desc, offset |-> 0, length |-> length, ti_field |-> ti_field]

\* the call dissect_protobuf_message(tvb, offset, length, ..., sub_message_desc)
nested_message(sub_message_desc, offset, length, ti_field) ==
    [desc |-> sub_message_desc, offset |-> offset, length |-> length, ti_field |-> ti_field]

protobuf_dissect_field_value(st, buf, value_tree, offset, length, ti_field, field_type, value, field_desc) ==
    LET st1 ==
            IF field_type \in {PROTOBUF_TYPE_GROUP, PROTOBUF_TYPE_MESSAGE}
            THEN IF field_desc.found
                 THEN LET sub_message_desc == pbw_FieldDescriptor_message_type(field_desc)
                      IN  IF sub_message_desc # NULL
                          THEN [st EXCEPT !.call = nested_message(sub_message_desc, offset,
                                                                  length, ti_field)]
                          ELSE [st EXCEPT !.expert =
                                   Append(@, Expert("message_type_not_found", ti_field))]
                 ELSE st
            ELSE IF adds_item(length, field_type)
                 THEN [st EXCEPT !.tree =
                          Append(@, Node(value_hf(field_type), value_tree, offset, length,
                                         typed_value(buf, offset, length, field_type, value)))]
                 ELSE st
    IN  \* a nested message is dissected first: the text is added when it returns
        IF add_datatype(field_type) /\ st1.call.desc = NULL
        THEN [st1 EXCEPT !.tree[ti_field].text = Append(@, field_type)]
        ELSE st1

(***************************************************************************)
(* protobuf_try_dissect_field_value_on_multi_types                         *)
(***************************************************************************)
RECURSIVE protobuf_try_dissect_field_value_on_multi_types(_, _, _, _, _, _, _, _, _)
protobuf_try_dissect_field_value_on_multi_types(st, buf, value_tree, offset, length, ti_field, field_types, value, i) ==
    IF i > Len(field_types) \/ field_types[i] = PROTOBUF_TYPE_NONE THEN st
    ELSE protobuf_try_dissect_field_value_on_multi_types(
             protobuf_dissect_field_value(st, buf, value_tree, offset, length, ti_field,
                                          field_types[i], value, NoField),
             buf, value_tree, offset, length, ti_field, field_types, value, i + 1)

\* which field type of each wire type could be
protobuf_wire_to_field_type(wire_type) ==
    CASE wire_type = PROTOBUF_WIRETYPE_VARINT ->
            << PROTOBUF_TYPE_INT32, PROTOBUF_TYPE_INT64, PROTOBUF_TYPE_UINT32, PROTOBUF_TYPE_UINT64,
               PROTOBUF_TYPE_SINT32, PROTOBUF_TYPE_SINT64, PROTOBUF_TYPE_BOOL, PROTOBUF_TYPE_ENUM,
               PROTOBUF_TYPE_NONE >>
      [] wire_type = PROTOBUF_WIRETYPE_FIXED64 ->
            << PROTOBUF_TYPE_FIXED64, PROTOBUF_TYPE_SFIXED64, PROTOBUF_TYPE_DOUBLE,
               PROTOBUF_TYPE_NONE >>
      [] wire_type = PROTOBUF_WIRETYPE_LENGTH_DELIMITED ->
            << PROTOBUF_TYPE_STRING, PROTOBUF_TYPE_BYTES, PROTOBUF_TYPE_MESSAGE, PROTOBUF_TYPE_GROUP,
               PROTOBUF_TYPE_NONE >>
      [] wire_type = PROTOBUF_WIRETYPE_FIXED32 ->
            << PROTOBUF_TYPE_FIXED32, PROTOBUF_TYPE_SINT32, PROTOBUF_TYPE_FLOAT,
               PROTOBUF_TYPE_NONE >>
      [] OTHER -> << PROTOBUF_TYPE_NONE >>

(***************************************************************************)
(* dissect_packed_repeated_field_values                                    *)
(***************************************************************************)
PackedVarintTypes ==
    { PROTOBUF_TYPE_INT32, PROTOBUF_TYPE_INT64, PROTOBUF_TYPE_UINT32, PROTOBUF_TYPE_UINT64,
      PROTOBUF_TYPE_SINT32, PROTOBUF_TYPE_SINT64, PROTOBUF_TYPE_BOOL, PROTOBUF_TYPE_ENUM }

Packed64Types == { PROTOBUF_TYPE_FIXED64, PROTOBUF_TYPE_SFIXED64, PROTOBUF_TYPE_DOUBLE }

Packed32Types == { PROTOBUF_TYPE_FIXED32, PROTOBUF_TYPE_SFIXED32, PROTOBUF_TYPE_FLOAT }

\* "try to test all can parsed as varint": the varints of [offset, max_offset)
\* in order, with ok unset when one does not parse
RECURSIVE packed_varint_list(_, _, _, _)
packed_varint_list(buf, offset, max_offset, list) ==
    IF ~(offset < max_offset) THEN [ok |-> TRUE, exc |-> FALSE, list |-> list]
    ELSE LET sub == tvb_get_varint(buf, offset, max_offset - offset)
         IN  IF sub.length = 0 THEN [ok |-> FALSE, exc |-> FALSE, list |-> <<>>]
             ELSE IF sub.length < 0 THEN [ok |-> FALSE, exc |-> TRUE, list |-> <<>>]
             ELSE packed_varint_list(buf, offset + sub.length, max_offset,
                      Append(list, [offset |-> offset, length |-> sub.length, value |-> sub.value]))

\* the varints added from the last to the first
RECURSIVE packed_add_varints_backwards(_, _, _, _, _, _, _, _)
packed_add_varints_backwards(st, buf, subtree, ti_field, field_type, field_desc, list, i) ==
    IF i > Len(list) THEN st
    ELSE LET e == list[Len(list) + 1 - i]
         IN  packed_add_varints_backwards(
                 protobuf_dissect_field_value(st, buf, subtree, e.offset, e.length,
                                              ti_field, field_type, e.value, field_desc),
                 buf, subtree, ti_field, field_type, field_desc, list, i + 1)

\* "all parsed, we add varints into the packed-repeated subtree"
RECURSIVE packed_add_varints(_, _, _, _, _, _, _, _)
packed_add_varints(st, buf, subtree, ti_field, field_type, field_desc, list, i) ==
    IF i > Len(list) THEN st
    ELSE packed_add_varints(
             protobuf_dissect_field_value(st, buf, subtree, list[i].offset, list[i].length,
                                          ti_field, field_type, list[i].value, field_desc),
             buf, subtree, ti_field, field_type, field_desc, list, i + 1)

\* the read of one fixed-width element
packed_fixed_read(buf, offset, wire_type) ==
    IF wire_type = PROTOBUF_WIRETYPE_FIXED32
    THEN tvb_get_letohl(buf, offset)
    ELSE tvb_get_letoh64(buf, offset)

\* for (offset = start; offset < max_offset; offset += value_size)
RECURSIVE packed_add_fixed(_, _, _, _, _, _, _, _, _, _)
packed_add_fixed(st, buf, subtree, ti_field, wire_type, field_type, field_desc, offset, max_offset, value_size) ==
    IF ~(offset < max_offset) THEN st
    ELSE LET v == packed_fixed_read(buf, offset, wire_type)
         IN  IF v.exc THEN [st EXCEPT !.exc = TRUE]
             ELSE packed_add_fixed(
                      protobuf_dissect_field_value(st, buf, subtree, offset, value_size,
                                                   ti_field, field_type, v.value, field_desc),
                      buf, subtree, ti_field, wire_type, field_type, field_desc,
                      offset + value_size, max_offset, value_size)

\* a fixed-width payload of any length taken
packed_length_any(length, value_size) == TRUE

\* the length a fixed-width payload must have
packed_length_ok(length, value_size) == ~(length % value_size # 0)

dissect_packed_repeated_field_values(st, buf, value_tree, start, length, ti_field, wire_type, field_type, field_desc) ==
    LET max_offset == start + length
        subtree == Len(st.tree) + 1
        st1 == [st EXCEPT !.tree =
                   Append(@, Node("protobuf.field.value.repeated", value_tree, start, length, <<>>))]
    IN  IF field_type \in PackedVarintTypes
        THEN LET scan == packed_varint_list(buf, start, max_offset, <<>>)
             IN  IF scan.exc THEN [st1 EXCEPT !.exc = TRUE]
                 ELSE IF ~scan.ok THEN [st1 EXCEPT !.packed_ret = 0]
                 ELSE [packed_add_varints(st1, buf, subtree, ti_field, field_type, field_desc,
                                          scan.list, 1)
                          EXCEPT !.packed_ret = length]
        ELSE IF field_type \in Packed64Types \cup Packed32Types
        THEN LET value_size == IF field_type \in Packed64Types THEN 8 ELSE 4
             IN  IF ~packed_length_ok(length, value_size)
                 THEN [st1 EXCEPT !.expert =
                          Append(@, Expert("failed_parse_packed_repeated_field", ti_field)),
                                  !.packed_ret = 0]
                 ELSE LET st2 == packed_add_fixed(st1, buf, subtree, ti_field, wire_type,
                                                  field_type, field_desc, start, max_offset,
                                                  value_size)
                      IN  IF st2.exc THEN st2 ELSE [st2 EXCEPT !.packed_ret = length]
        ELSE [st1 EXCEPT !.expert =
                 Append(@, Expert("wire_type_not_support_packed_repeated", ti_field)),
                         !.packed_ret = 0]

(***************************************************************************)
(* dissect_one_protobuf_field                                              *)
(***************************************************************************)
is_packed_repeated(field_desc) == field_desc.is_packed /\ field_desc.is_repeated

\* value_length = (guint) value_uint64
length_delimited_value_length(value_uint64) == GuintToNat(Low32(value_uint64))

\* proto_item_set_len(ti_field, tag_length + value_length_size + value_length)
field_item_len(tag_length, value_length_size, value_length) ==
    tag_length + value_length_size + value_length

\* where the generated Field Name and Field Type items start: at *offset, which
\* the tag has been added to
generated_item_start(offset, tag_length) == offset + tag_length

\* if (is_packed_repeated) dissect_packed_repeated_field_values(...)
calls_packed_repeated(field_desc, wire_type) == is_packed_repeated(field_desc)

\* the single field type tried for a field without descriptor
fallback_field_type(wire_type, value_uint64) ==
    IF wire_type = PROTOBUF_WIRETYPE_LENGTH_DELIMITED
    THEN (IF prefs.try_dissect_as_string THEN PROTOBUF_TYPE_STRING ELSE PROTOBUF_TYPE_NONE)
    ELSE (IF FitsUint32(value_uint64) THEN PROTOBUF_TYPE_UINT32 ELSE PROTOBUF_TYPE_UINT64)

\* the cursor left where the value starts
advance_offset_stay(offset, value_length) == offset

\* (*offset) += value_length
advance_offset(offset, value_length) == offset + value_length

\* the switch on wire_type: value_length, value_uint64 and value_length_size.
\* status is "ok", "fail" (an expert info and return FALSE) or "exc"
parse_value(buf, offset, maxlen, tag_length, wire_type) ==
    LET none == [status |-> "ok", value_length |-> 0, value_length_size |-> 0,
                 value_uint64 |-> U64Zero, kind |-> NULL, on_wire |-> FALSE]
    IN  CASE wire_type = PROTOBUF_WIRETYPE_VARINT ->
               LET v == tvb_get_varint(buf, offset, maxlen - tag_length)
               IN  IF v.length = 0
                   THEN [none EXCEPT !.status = "fail", !.kind = "failed_parse_field",
                                     !.on_wire = TRUE]
                   ELSE IF v.length < 0 THEN [none EXCEPT !.status = "exc"]
                   ELSE [none EXCEPT !.value_length = v.length, !.value_uint64 = v.value]
          [] wire_type = PROTOBUF_WIRETYPE_FIXED64 ->
               LET v == tvb_get_letoh64(buf, offset)
               IN  IF v.exc THEN [none EXCEPT !.status = "exc"]
                   ELSE [none EXCEPT !.value_length = 8, !.value_uint64 = v.value]
          [] wire_type = PROTOBUF_WIRETYPE_FIXED32 ->
               LET v == tvb_get_letohl(buf, offset)
               IN  IF v.exc THEN [none EXCEPT !.status = "exc"]
                   ELSE [none EXCEPT !.value_length = 4, !.value_uint64 = v.value]
          [] wire_type = PROTOBUF_WIRETYPE_LENGTH_DELIMITED ->
               LET v == tvb_get_varint(buf, offset, maxlen - tag_length)
               IN  IF v.length = 0
                   THEN [none EXCEPT !.status = "fail",
                                     !.kind = "failed_parse_length_delimited_field"]
                   ELSE IF v.length < 0 THEN [none EXCEPT !.status = "exc"]
                   ELSE [none EXCEPT !.value_length_size = v.length,
                                     !.value_length = length_delimited_value_length(v.value),
                                     !.value_uint64 = v.value]
          [] OTHER ->
               [none EXCEPT !.status = "fail", !.kind = "wire_type_invalid", !.on_wire = TRUE]

\* the record of one call: ret is "TRUE", "FALSE", "EXC" (a read threw) or
\* "CALL" (the call is dissecting a nested message); end is *offset at that point
CallLog(start, maxlen, ret, end, tag_length, pv, wire_type, field_desc, packed, ti_field) ==
    [start |-> start, maxlen |-> maxlen, ret |-> ret, end |-> end,
     tag_length |-> tag_length, value_length_size |-> pv.value_length_size,
     value_length |-> pv.value_length, value_uint64 |-> pv.value_uint64,
     wire_type |-> wire_type, found |-> field_desc.found, field_type |-> field_desc.type,
     is_packed_repeated |-> is_packed_repeated(field_desc), packed |-> packed,
     ti_field |-> ti_field, depth |-> Len(stack)]

NoValue ==
    [status |-> "fail", value_length |-> 0, value_length_size |-> 0,
     value_uint64 |-> U64Zero, kind |-> NULL, on_wire |-> FALSE]

dissect_one_protobuf_field(buf, offset, maxlen, tr, ex, protobuf_tree, message_desc) ==
    LET ti_field == Len(tr) + 1
        t0 == Append(tr, Node("protobuf.field", protobuf_tree, offset, 0, <<>>))
        tag == tvb_get_varint(buf, offset, maxlen)
    IN  IF tag.length = 0
        THEN [st |-> Work(t0, Append(ex, Expert("failed_parse_tag", ti_field))),
              log |-> CallLog(offset, maxlen, "FALSE", offset, 0, NoValue, -1, NoField, FALSE, ti_field)]
        ELSE IF tag.length < 0
        THEN [st |-> [Work(t0, ex) EXCEPT !.exc = TRUE],
              log |-> CallLog(offset, maxlen, "EXC", offset, 0, NoValue, -1, NoField, FALSE, ti_field)]
        ELSE
        LET field_number == ShiftRight3(tag.value)
            wire_type == tag.value[1] % 8
            ti_wire == ti_field + 2
            t1 == t0 \o << Node("protobuf.field.number", ti_field, offset, tag.length, field_number),
                           Node("protobuf.field.wiretype", ti_field, offset, 1, <<wire_type>>) >>
            off1 == offset + tag.length
            field_desc == IF message_desc # NULL
                          THEN pbw_Descriptor_FindFieldByNumber(message_desc, Low32(field_number))
                          ELSE NoField
            ti_field_name == ti_field + 3
            has_type == field_desc.found /\ field_desc.type \in FieldTypes
            t2 == t1 \o << Node("protobuf.field.name", ti_field,
                                generated_item_start(offset, tag.length), 1, <<>>) >>
                     \o (IF has_type
                         THEN << Node("protobuf.field.type", ti_field,
                                      generated_item_start(offset, tag.length), 1, <<>>) >>
                         ELSE << >>)
            pv == parse_value(buf, off1, maxlen, tag.length, wire_type)
        IN  IF pv.status = "fail"
            THEN [st |-> Work(t2, Append(ex, Expert(pv.kind, IF pv.on_wire THEN ti_wire ELSE ti_field))),
                  log |-> CallLog(offset, maxlen, "FALSE", off1, tag.length, pv, wire_type, field_desc, FALSE, ti_field)]
            ELSE IF pv.status = "exc"
            THEN [st |-> [Work(t2, ex) EXCEPT !.exc = TRUE],
                  log |-> CallLog(offset, maxlen, "EXC", off1, tag.length, pv, wire_type, field_desc, FALSE, ti_field)]
            ELSE
            LET t3 == IF wire_type = PROTOBUF_WIRETYPE_LENGTH_DELIMITED
                      THEN Append(t2, Node("protobuf.field.value.length", ti_field, off1,
                                           pv.value_length_size, pv.value_uint64))
                      ELSE t2
                off2 == off1 + pv.value_length_size
                len == field_item_len(tag.length, pv.value_length_size, pv.value_length)
                t4 == [i \in DOMAIN t3 |->
                         IF i = ti_field \/ i = ti_field_name \/ (has_type /\ i = ti_field_name + 1)
                         THEN [t3[i] EXCEPT !.length = len]
                         ELSE t3[i]]
                ti_value == Len(t4) + 1
                packed == field_desc.found /\ calls_packed_repeated(field_desc, wire_type)
            IN  IF ~tvb_bytes_exist(buf, off2, pv.value_length)
                THEN [st |-> [Work(t4, ex) EXCEPT !.exc = TRUE],
                      log |-> CallLog(offset, maxlen, "EXC", off2, tag.length, pv, wire_type, field_desc, FALSE, ti_field)]
                ELSE
                LET t5 == Append(t4, Node("protobuf.field.value", ti_field, off2, pv.value_length,
                                          SubSeq(buf, off2 + 1, off2 + pv.value_length)))
                    st0 == Work(t5, ex)
                    st1 == IF field_desc.found
                           THEN IF packed
                                THEN dissect_packed_repeated_field_values(st0, buf, ti_value, off2,
                                         pv.value_length, ti_field, wire_type, field_desc.type, field_desc)
                                ELSE protobuf_dissect_field_value(st0, buf, ti_value, off2,
                                         pv.value_length, ti_field, field_desc.type, pv.value_uint64,
                                         field_desc)
                           ELSE IF prefs.show_all_possible_field_types
                                THEN protobuf_try_dissect_field_value_on_multi_types(st0, buf, ti_value,
                                         off2, pv.value_length, ti_field,
                                         protobuf_wire_to_field_type(wire_type), pv.value_uint64, 1)
                                ELSE protobuf_try_dissect_field_value_on_multi_types(st0, buf, ti_value,
                                         off2, pv.value_length, ti_field,
                                         << fallback_field_type(wire_type, pv.value_uint64),
                                            PROTOBUF_TYPE_NONE >>,
                                         pv.value_uint64, 1)
                IN  IF st1.exc
                    THEN [st |-> st1,
                          log |-> CallLog(offset, maxlen, "EXC", off2, tag.length, pv, wire_type, field_desc, packed, ti_field)]
                    ELSE IF st1.call.desc # NULL
                    THEN [st |-> st1,
                          log |-> CallLog(offset, maxlen, "CALL", off2, tag.length, pv, wire_type, field_desc, packed, ti_field)]
                    ELSE [st |-> st1,
                          log |-> CallLog(offset, maxlen, "TRUE", advance_offset(off2, pv.value_length),
                                          tag.length, pv, wire_type, field_desc, packed, ti_field)]

(***************************************************************************)
(* dissect_protobuf_message and dissect_protobuf                           *)
(***************************************************************************)
\* the Message subtree and its generated Message Name item
message_enter(tr, protobuf_tree, offset, length) ==
    tr \o << Node("protobuf.message", protobuf_tree, offset, length, <<>>),
             Node("protobuf.message.name", Len(tr) + 1, offset, length, <<>>) >>

\* a frame of dissect_protobuf_message: its offset and max_offset, and, for a
\* nested message, what the calling dissect_one_protobuf_field still has to do
Frame(offset, length, message_desc, message_tree, caller) ==
    [start |-> offset, offset |-> offset, max_offset |-> offset + length,
     message_desc |-> message_desc, message_tree |-> message_tree, failed |-> FALSE,
     caller |-> caller]

NoCaller == [call |-> 0, ti_field |-> 0, field_type |-> PROTOBUF_TYPE_NONE, value_length |-> 0]

\* while (offset < max_offset)
loop_continues(frame) == frame.offset < frame.max_offset /\ ~frame.failed

Top == stack[Len(stack)]

\* strings are sequences of characters; NoHint is the NULL char pointer
NoHint == << NULL >>

\* strchr: the index of the first c in str, 0 when there is none
strchr(str, c) ==
    IF \E i \in DOMAIN str : str[i] = c
    THEN CHOOSE i \in DOMAIN str : str[i] = c /\ \A k \in 1..(i - 1) : str[k] # c
    ELSE 0

g_str_has_prefix(str, prefix) ==
    Len(str) >= Len(prefix) /\ SubSeq(str, 1, Len(prefix)) = prefix

\* wmem_strsplit(scope, src, ",", 2): the part before the first delimiter and
\* the rest of the string
wmem_strsplit(src, delimiter) ==
    LET at == strchr(src, delimiter)
    IN  IF src = << >> THEN << >>
        ELSE IF at = 0 THEN << src >>
        ELSE << SubSeq(src, 1, at - 1), SubSeq(src, at + 1, Len(src)) >>

\* the descriptor pool: the messages p.M and p.N and the method S.m, which
\* takes p.M and returns p.N
pbw_DescriptorPool_FindMessageTypeByName(name) ==
    IF name = << "p", ".", "M" >> THEN "M"
    ELSE IF name = << "p", ".", "N" >> THEN "N"
    ELSE NULL

NoMethod == [found |-> FALSE, input_type |-> NULL, output_type |-> NULL]

pbw_DescriptorPool_FindMethodByName(name) ==
    IF name = << "S", ".", "m" >>
    THEN [found |-> TRUE, input_type |-> "M", output_type |-> "N"]
    ELSE NoMethod

\* data, or else the pb_msg_type entry of pinfo->private_table
hint_data_str(pi) == IF pi.data # NoHint THEN pi.data ELSE pi.pb_msg_type

\* "replace all '/' to '.'"
replace_slashes(method_name) ==
    [i \in DOMAIN method_name |-> IF method_name[i] = "/" THEN "." ELSE method_name[i]]

\* the request and the response type swapped
direction_is_not_request(direction_type) == direction_type # << "r", "e", "q", "u", "e", "s", "t" >>

\* strcmp(direction_type, "request") == 0
direction_is_request(direction_type) == direction_type = << "r", "e", "q", "u", "e", "s", "t" >>

\* what follows the first ',' of data_str, or NoHint
hint_message_info(data_str) ==
    LET comma == strchr(data_str, ",")
    IN  IF comma = 0 THEN NoHint ELSE SubSeq(data_str, comma + 1, Len(data_str))

\* message_desc of a packet that comes with the hint data_str
resolve_hint(data_str) ==
    LET message_info == hint_message_info(data_str)
    IN  IF message_info = NoHint THEN NULL
        ELSE IF g_str_has_prefix(data_str, << "m", "e", "s", "s", "a", "g", "e", "," >>)
        THEN pbw_DescriptorPool_FindMessageTypeByName(message_info)
        ELSE LET info == IF message_info # << >> /\ message_info[1] = "/"
                         THEN Tail(message_info) ELSE message_info
                 tmp_names == wmem_strsplit(info, ",")
                 has_direction == Len(tmp_names) = 2
             IN  IF ~has_direction THEN NULL
                 ELSE LET method_desc ==
                              pbw_DescriptorPool_FindMethodByName(replace_slashes(tmp_names[1]))
                      IN  IF ~method_desc.found THEN NULL
                          ELSE IF direction_is_request(tmp_names[2])
                          THEN method_desc.input_type
                          ELSE method_desc.output_type

value_is_in_range(range, port) == port \in range

\* "try to find message type by UDP port"
RECURSIVE find_message_type_by_udp_port(_, _)
find_message_type_by_udp_port(pi, i) ==
    IF i > Len(udp_message_types) THEN NULL
    ELSE IF /\ \/ value_is_in_range(udp_message_types[i].udp_port_range, pi.srcport)
               \/ value_is_in_range(udp_message_types[i].udp_port_range, pi.destport)
            /\ udp_message_types[i].message_type # << >>
         THEN pbw_DescriptorPool_FindMessageTypeByName(udp_message_types[i].message_type)
         ELSE find_message_type_by_udp_port(pi, i + 1)

\* the table of UDP ports looked up whatever the hint
uses_udp_port_with_hint(data_str, pi) == pi.ptype = "PT_UDP"

\* } else if (pinfo->ptype == PT_UDP) {
uses_udp_port(data_str, pi) == data_str = NoHint /\ pi.ptype = "PT_UDP"

(***************************************************************************)
(* protobuf_reinit: the callback of the preferences and of the two tables  *)
(* of the preferences.  It runs between packets, in three steps: the       *)
(* loading of the .proto files, the loop that deletes the dissector from   *)
(* the old port ranges, the loop that adds it to the new ones.             *)
(***************************************************************************)
\* a NULL range_t*: a range no port is in
NoRange == { -1 }

\* a record taken to have a range whatever it holds
has_port_range_always(rec) == TRUE

\* if (udp_port_range) {
has_port_range(rec) == rec.udp_port_range # NoRange

\* the dissector table without, and with, the ports of a range
dissector_delete_uint_range(table, range) == table \ range

dissector_add_uint_range(table, range) == table \cup range

\* range_copy: a range of its own with the same ports
range_copy(range) == range

\* for (it = old_udp_port_ranges; it; it = it->next)
RECURSIVE delete_old_ranges(_, _, _)
delete_old_ranges(table, list, i) ==
    IF i > Len(list) THEN table
    ELSE delete_old_ranges(dissector_delete_uint_range(table, list[i]), list, i + 1)

\* a message type that is named and not in the pool is reported, if the files were loaded
reports_message_type(completed, message_type) ==
    /\ completed
    /\ message_type # << >>
    /\ pbw_DescriptorPool_FindMessageTypeByName(message_type) = NULL

\* for (i = 0; i < num_protobuf_udp_message_types; ++i)
RECURSIVE add_new_ranges(_, _, _, _)
add_new_ranges(st, types, completed, i) ==
    IF i > Len(types) THEN st
    ELSE LET st1 == IF has_port_range(types[i])
                    THEN LET udp_port_range == range_copy(types[i].udp_port_range)
                         IN  [st EXCEPT !.list = Append(@, udp_port_range),
                                        !.table = dissector_add_uint_range(@, udp_port_range)]
                    ELSE st
             st2 == IF reports_message_type(completed, types[i].message_type)
                    THEN [st1 EXCEPT !.report = @ \cup { types[i].message_type }]
                    ELSE st1
         IN  add_new_ranges(st2, types, completed, i + 1)

\* the tables of UDP ports the preferences may hold when protobuf_reinit runs:
\* those of UdpTables and tables with records without a range, with an empty
\* range, with ranges that meet and with the same range twice
ReinitTables ==
    { << >>,
      << [udp_port_range |-> {1}, message_type |-> << "p", ".", "M" >>] >>,
      << [udp_port_range |-> {1}, message_type |-> << >>],
         [udp_port_range |-> {1, 2}, message_type |-> << "p", ".", "N" >>] >>,
      << [udp_port_range |-> {2}, message_type |-> << "p", ".", "X" >>],
         [udp_port_range |-> {2}, message_type |-> << "p", ".", "M" >>] >>,
      << [udp_port_range |-> NoRange, message_type |-> << "p", ".", "M" >>] >>,
      << [udp_port_range |-> NoRange, message_type |-> << "p", ".", "X" >>],
         [udp_port_range |-> {3}, message_type |-> << "p", ".", "N" >>] >>,
      << [udp_port_range |-> {}, message_type |-> << "p", ".", "M" >>],
         [udp_port_range |-> {2, 3}, message_type |-> << >>] >>,
      << [udp_port_range |-> {1, 2, 3}, message_type |-> << "p", ".", "X" >>] >> }

\* the first step: the pool is made anew and the files are loaded, with or without
\* success; types is the table the preferences hold at the call
protobuf_reinit ==
    /\ pc \in { "idle", "done", "exception" }
    /\ reinit_pc = "idle"
    /\ \E types \in ReinitTables, completed \in BOOLEAN :
          /\ udp_message_types' = types
          /\ loading_completed' = completed
          /\ report' = IF completed THEN { } ELSE { << "s", "t", "o", "p", "p", "e", "d" >> }
    /\ reinit_pc' = "delete"
    /\ UNCHANGED <<old_udp_port_ranges, udp_port>>
    /\ UNCHANGED dissect_vars

\* "delete protobuf dissector from old udp ports"
protobuf_reinit_delete ==
    /\ reinit_pc = "delete"
    /\ udp_port' = delete_old_ranges(udp_port, old_udp_port_ranges, 1)
    /\ old_udp_port_ranges' = << >>
    /\ reinit_pc' = "add"
    /\ UNCHANGED <<udp_message_types, loading_completed, report>>
    /\ UNCHANGED dissect_vars

\* "add protobuf dissector to new udp ports"
protobuf_reinit_add ==
    /\ reinit_pc = "add"
    /\ \E st \in { add_new_ranges([list |-> old_udp_port_ranges, table |-> udp_port,
                                   report |-> report],
                                  udp_message_types, loading_completed, 1) } :
          /\ old_udp_port_ranges' = st.list
          /\ udp_port' = st.table
          /\ report' = st.report
    /\ reinit_pc' = "idle"
    /\ UNCHANGED <<udp_message_types, loading_completed>>
    /\ UNCHANGED dissect_vars

\* what proto_reg_handoff_protobuf leaves, the files loaded, for the table types
Registered(types) ==
    add_new_ranges([list |-> << >>, table |-> { }, report |-> { }], types, TRUE, 1)

\* dissect_protobuf: the entry for the next packet.  What the packet before
\* left is kept in archive.
dissect_protobuf ==
    /\ pc \in {"idle", "done", "exception"}
    /\ queue # << >>
    /\ LET buf == Head(queue)
           data_str == hint_data_str(pinfo)
           message_info == IF data_str = NoHint THEN NoHint ELSE hint_message_info(data_str)
           ti == [Node("protobuf", 0, 0, Len(buf), <<>>) EXCEPT
                     !.text = IF message_info = NoHint THEN << >> ELSE << message_info >>]
           by_udp == uses_udp_port(data_str, pinfo)
           message_desc == IF by_udp THEN find_message_type_by_udp_port(pinfo, 1)
                           ELSE IF data_str # NoHint THEN resolve_hint(data_str)
                           ELSE NULL
       IN  /\ tvb' = buf
           /\ tree' = message_enter(<< ti >>, 1, 0, Len(buf))
           /\ stack' = << Frame(0, Len(buf), message_desc, 2, NoCaller) >>
           /\ top_desc' = message_desc
           /\ udp_lookup' = by_udp
    /\ queue' = Tail(queue)
    /\ archive' = IF pc = "idle" THEN archive
                  ELSE Append(archive, [tvb |-> tvb, tree |-> tree, expert |-> expert,
                                        calls |-> calls, pc |-> pc])
    /\ expert' = << >>
    /\ calls' = << >>
    /\ msgs' = << >>
    /\ pc' = "run"
    /\ UNCHANGED <<pinfo, udp_message_types, schema, prefs>>
    /\ UNCHANGED reinit_vars

\* one call of dissect_one_protobuf_field from the loop of the innermost message
dissect_field ==
    /\ pc = "run"
    /\ stack # << >>
    /\ loop_continues(Top)
    /\ \E r \in { dissect_one_protobuf_field(tvb, Top.offset, Top.max_offset - Top.offset,
                                               tree, expert, Top.message_tree,
                                               Top.message_desc) } :
       LET d == Len(stack)
       IN  /\ expert' = r.st.expert
           /\ calls' = Append(calls, r.log)
           /\ IF r.log.ret = "EXC"
              THEN /\ pc' = "exception"
                   /\ stack' = << >>
                   /\ tree' = r.st.tree
              ELSE IF r.log.ret = "CALL"
              THEN /\ pc' = "run"
                   /\ tree' = message_enter(r.st.tree, r.st.call.ti_field, r.st.call.offset,
                                            r.st.call.length)
                   /\ stack' = Append([stack EXCEPT ![d].offset = r.log.end],
                                      Frame(r.st.call.offset, r.st.call.length, r.st.call.desc,
                                            Len(r.st.tree) + 1,
                                            [call |-> Len(calls) + 1, ti_field |-> r.st.call.ti_field,
                                             field_type |-> r.log.field_type,
                                             value_length |-> r.log.value_length]))
              ELSE /\ pc' = "run"
                   /\ tree' = r.st.tree
                   /\ stack' = [stack EXCEPT ![d].offset = r.log.end,
                                             ![d].failed = (r.log.ret = "FALSE")]
    /\ UNCHANGED reinit_vars
    /\ UNCHANGED <<queue, pinfo, udp_message_types, top_desc, udp_lookup, schema, prefs, tvb, msgs,
                   archive>>

\* dissect_protobuf_message returns: to dissect_protobuf, which returns too, or
\* to protobuf_dissect_field_value in the dissect_one_protobuf_field that called it,
\* which adds the field type to the text, advances *offset and returns TRUE
dissect_protobuf_message_return ==
    /\ pc = "run"
    /\ stack # << >>
    /\ ~loop_continues(Top)
    /\ LET f == Top
           d == Len(stack)
       IN  /\ msgs' = Append(msgs, [start |-> f.start, max_offset |-> f.max_offset,
                                    offset |-> f.offset, failed |-> f.failed, depth |-> d])
           /\ IF d = 1
              THEN /\ pc' = "done"
                   /\ stack' = << >>
                   /\ UNCHANGED <<tree, calls>>
              ELSE LET end == advance_offset(stack[d - 1].offset, f.caller.value_length)
                   IN  /\ pc' = "run"
                       /\ stack' = [SubSeq(stack, 1, d - 1) EXCEPT ![d - 1].offset = end]
                       /\ tree' = [tree EXCEPT ![f.caller.ti_field].text =
                                      Append(@, f.caller.field_type)]
                       /\ calls' = [calls EXCEPT ![f.caller.call].ret = "TRUE",
                                                 ![f.caller.call].end = end]
    /\ UNCHANGED reinit_vars
    /\ UNCHANGED <<queue, pinfo, udp_message_types, top_desc, udp_lookup, schema, prefs, tvb, expert,
                   archive>>

(***************************************************************************)
(* The inputs: packets, descriptors and preferences.                       *)
(***************************************************************************)
\* the most fields a generated packet is put together from
MaxFields == 2

\* what a packet starts with: a field, whole or cut short
FirstChunks ==
    { << 8, 1 >>,                                   \* field 1, varint 1
      << 8, 150, 1 >>,                              \* field 1, varint 150
      << 8, 255, 255, 255, 255, 255, 255, 255, 255, 255, 1 >>,   \* field 1, varint 2^64 - 1
      << 8 >>,                                      \* a tag and nothing else
      << 8, 128 >>,                                 \* a varint cut short
      << 9, 1, 0, 0, 0, 0, 0, 0, 128 >>,            \* field 1, 64-bit
      << 9, 1, 2, 3 >>,                             \* a 64-bit value cut short
      << 13, 1, 0, 0, 0 >>,                         \* field 1, 32-bit
      << 13, 1, 0 >>,                               \* a 32-bit value cut short
      << 10, 0 >>,                                  \* field 1, length-delimited, empty
      << 10, 2, 8, 1 >>,                            \* ... holding a field 1, or two varints
      << 10, 2, 1, 2 >>,                            \* ... holding varints 1 and 2
      << 10, 4, 10, 2, 8, 1 >>,                     \* two levels of nesting
      << 10, 2, 10, 1, 0 >>,                        \* inner length beyond the inner message
      << 10, 2, 13, 0, 0, 0, 0 >>,                  \* inner 32-bit value beyond the inner message
      << 10, 5, 1 >>,                               \* a length beyond the packet
      << 10, 2, 9, 1 >>,                            \* field 1, a nested 64-bit field cut short
      << 10, 128, 128, 128, 128, 16 >>,             \* length prefix 2^32
      << 10, 129, 128, 128, 128, 16, 65 >>,         \* length prefix 2^32 + 1
      << 10, 4, 1, 0, 0, 0 >>,                      \* one packed 32-bit value
      << 10, 8, 1, 0, 0, 0, 2, 0, 0, 0 >>,          \* two packed 32-bit values, or one 64-bit
      << 10, 4, 1, 0, 0, 0, 8, 2, 16, 3 >>,         \* field 1, one 32-bit element, then fields 1 and 2
      << 10, 3, 1, 2, 3 >>,                         \* three bytes
      << 10, 1, 128 >>,                             \* a payload that is no varint
      << 10, 128 >>,                                \* a length prefix cut short
      << 11, 1 >>,                                  \* field 1, start group
      << 14, 1 >>,                                  \* field 1, wire type 6
      << 0, 1 >>,                                   \* field number 0
      << 255, 255, 255, 255, 255, 255, 255, 255, 255, 255, 255 >>,   \* no varint
      << 16, 1 >>,                                  \* field 2, varint
      << 18, 1, 65 >>,                              \* field 2, length-delimited
      << 16, 150, 1, 18, 1, 65 >>,                  \* field 2, varint 150, then length-delimited
      << 21, 1, 0, 0, 0 >>,                         \* field 2, 32-bit
      << 17, 1, 0, 0, 0, 1, 0, 0, 0 >>,             \* field 2, 64-bit, above 2^32
      << 136, 128, 128, 128, 128, 1, 1 >> }         \* field number 2^32 + 1, varint

\* the fields that may follow
NextChunks == { << 8, 2 >>, << 16, 3 >> }

RECURSIVE Packets(_)
Packets(n) ==
    IF n <= 1 THEN FirstChunks
    ELSE Packets(n - 1) \cup { p \o c : p \in Packets(n - 1), c \in NextChunks }

\* the same elements of a repeated field 1, packed and as separate occurrences
PackedPairs ==
    { << << 10, 2, 1, 2 >>, << 8, 1, 8, 2 >> >>,
      << << 10, 2, 1, 2, 16, 3 >>, << 8, 1, 8, 2, 16, 3 >> >>,
      << << 10, 3, 1, 150, 1 >>, << 8, 1, 8, 150, 1 >> >>,
      << << 10, 8, 1, 0, 0, 0, 2, 0, 0, 0 >>, << 13, 1, 0, 0, 0, 13, 2, 0, 0, 0 >> >>,
      << << 10, 8, 1, 0, 0, 0, 2, 0, 0, 0, 16, 3 >>, << 13, 1, 0, 0, 0, 13, 2, 0, 0, 0, 16, 3 >> >>,
      << << 10, 8, 1, 0, 0, 0, 2, 0, 0, 0 >>, << 9, 1, 0, 0, 0, 2, 0, 0, 0 >> >> }

Queues == { << p >> : p \in Packets(MaxFields) } \cup PackedPairs

\* the descriptors field 1 of "M" may have: MESSAGE and GROUP fields with the
\* nested type "M" or none, packed only if repeated
Schemas ==
    { [found |-> TRUE, name |-> "f1", type |-> t, is_packed |-> fl[1], is_repeated |-> fl[2],
       message_type |-> m] :
        t \in FieldTypes, fl \in { <<FALSE, FALSE>>, <<FALSE, TRUE>>, <<TRUE, TRUE>> },
        m \in {NULL, "M"} }

SchemaOk(d) == d.message_type = NULL \/ d.type \in {PROTOBUF_TYPE_MESSAGE, PROTOBUF_TYPE_GROUP}

DefaultSchema ==
    [found |-> TRUE, name |-> "f1", type |-> PROTOBUF_TYPE_INT32, is_packed |-> FALSE,
     is_repeated |-> FALSE, message_type |-> NULL]

Prefs ==
    { [show_all_possible_field_types |-> p[1], try_dissect_as_string |-> p[2],
       dissect_bytes_as_string |-> p[3]] :
        p \in { <<FALSE, FALSE, FALSE>>, <<TRUE, FALSE, FALSE>>, <<TRUE, FALSE, TRUE>>,
                <<FALSE, TRUE, FALSE>>, <<FALSE, FALSE, TRUE>> } }

\* the hints a caller may hand over
HintM == << "m", "e", "s", "s", "a", "g", "e", ",", "p", ".", "M" >>

Hints ==
    { NoHint,
      HintM,
      << "m", "e", "s", "s", "a", "g", "e", ",", "p", ".", "N" >>,
      << "m", "e", "s", "s", "a", "g", "e", ",", "p", ".", "X" >>,        \* unknown message
      << "a", "/", "g", ",", "/", "S", "/", "m", ",", "r", "e", "q", "u", "e", "s", "t" >>,
      << "a", "/", "g", ",", "/", "S", "/", "m", ",", "r", "e", "s", "p", "o", "n", "s", "e" >>,
      << "a", "/", "g", ",", "S", "/", "m", ",", "r", "e", "q", "u", "e", "s", "t" >>,
      << "a", "/", "g", ",", "/", "S", "/", "m", ",", "r", "e", "q", "u", "e", "s", "t", "s" >>,
      << "a", "/", "g", ",", "/", "/", "S", "/", "m", ",", "r", "e", "q", "u", "e", "s", "t" >>,
      << "a", "/", "g", ",", "/", "S", "/", "x", ",", "r", "e", "q", "u", "e", "s", "t" >>,   \* unknown method
      << "a", "/", "g", ",", "/", "S", "/", "m" >>,                      \* no direction
      << "p", ".", "M" >>,                                               \* no comma
      << >> }

\* the tables of UDP ports the preferences may hold
UdpTables ==
    { << >>,
      << [udp_port_range |-> {1}, message_type |-> << "p", ".", "M" >>] >>,
      << [udp_port_range |-> {1}, message_type |-> << >>],
         [udp_port_range |-> {1, 2}, message_type |-> << "p", ".", "N" >>] >>,
      << [udp_port_range |-> {2}, message_type |-> << "p", ".", "X" >>],
         [udp_port_range |-> {2}, message_type |-> << "p", ".", "M" >>] >> }

PInfo(data, pb_msg_type, ptype, ports) ==
    [data |-> data, pb_msg_type |-> pb_msg_type, ptype |-> ptype, srcport |-> ports[1],
     destport |-> ports[2]]

DefaultPrefs ==
    [show_all_possible_field_types |-> FALSE, try_dissect_as_string |-> FALSE,
     dissect_bytes_as_string |-> FALSE]

(***************************************************************************)
(* The wire encoding of integer scalars, for packets that hold field 1     *)
(* with a known value.  A value is its two's complement limbs: two limbs   *)
(* for a 32-bit type, four for a 64-bit type.                              *)
(***************************************************************************)
IntegerTypes32 ==
    { PROTOBUF_TYPE_INT32, PROTOBUF_TYPE_UINT32, PROTOBUF_TYPE_SINT32, PROTOBUF_TYPE_FIXED32,
      PROTOBUF_TYPE_SFIXED32 }

IntegerTypes64 ==
    { PROTOBUF_TYPE_INT64, PROTOBUF_TYPE_UINT64, PROTOBUF_TYPE_SINT64, PROTOBUF_TYPE_FIXED64,
      PROTOBUF_TYPE_SFIXED64 }

IntegerScalarTypes == IntegerTypes32 \cup IntegerTypes64 \cup { PROTOBUF_TYPE_BOOL }

\* a negative value in two's complement
IsNegative(w) == w[Len(w)] >= 32768

\* a 32-bit value widened to 64 bits as a signed and as an unsigned value
SignExtend(w) == IF IsNegative(w) THEN << w[1], w[2], 65535, 65535 >> ELSE << w[1], w[2], 0, 0 >>

ZeroExtend(w) == << w[1], w[2], 0, 0 >>

\* a sequence of limbs shifted left by one bit
ShiftLeft1(w) ==
    [j \in DOMAIN w |-> ((w[j] * 2) % 65536) + (IF j > 1 THEN w[j - 1] \div 32768 ELSE 0)]

\* (n << 1) ^ (n >> 31), (n << 1) ^ (n >> 63): the mask is all ones iff n is negative
zigzag_encode(n) == IF IsNegative(n) THEN Complement(ShiftLeft1(n)) ELSE ShiftLeft1(n)

\* bit p of a 64-bit value
Bit64(v, p) == IF p > 63 THEN 0 ELSE BitOf(v[(p \div 16) + 1], p % 16)

\* bits 7g .. 7g+6 of a 64-bit value
Group7(v, g) == LimbOf([k \in 0..6 |-> Bit64(v, 7 * g + k)], 6)

\* the varint of a 64-bit value: seven bits a byte, the low ones first, the top
\* bit set on every byte but the last, no byte more than needed
varint_encode(v) ==
    LET size == CHOOSE n \in 1..FT_VARINT_MAX_LEN :
                    /\ \A g \in n..(FT_VARINT_MAX_LEN - 1) : Group7(v, g) = 0
                    /\ n = 1 \/ Group7(v, n - 1) # 0
    IN  [g \in 1..size |-> Group7(v, g - 1) + (IF g < size THEN 128 ELSE 0)]

\* the limbs of a value as little-endian bytes
fixed_encode(w) == [b \in 1..(2 * Len(w)) |-> IF b % 2 = 1 THEN w[(b + 1) \div 2] % 256
                                                            ELSE w[b \div 2] \div 256]

\* tag = (field_number << 3) | wire_type
tag_encode(field_number, wire_type) == << field_number * 8 + wire_type >>

\* field 1 holding the value v of type field_type
scalar_encode(field_type, v) ==
    CASE field_type = PROTOBUF_TYPE_INT32
            -> tag_encode(1, PROTOBUF_WIRETYPE_VARINT) \o varint_encode(SignExtend(v))
      [] field_type \in { PROTOBUF_TYPE_UINT32, PROTOBUF_TYPE_BOOL }
            -> tag_encode(1, PROTOBUF_WIRETYPE_VARINT) \o varint_encode(ZeroExtend(v))
      [] field_type = PROTOBUF_TYPE_SINT32
            -> tag_encode(1, PROTOBUF_WIRETYPE_VARINT)
                  \o varint_encode(ZeroExtend(zigzag_encode(v)))
      [] field_type \in { PROTOBUF_TYPE_INT64, PROTOBUF_TYPE_UINT64 }
            -> tag_encode(1, PROTOBUF_WIRETYPE_VARINT) \o varint_encode(v)
      [] field_type = PROTOBUF_TYPE_SINT64
            -> tag_encode(1, PROTOBUF_WIRETYPE_VARINT) \o varint_encode(zigzag_encode(v))
      [] field_type \in { PROTOBUF_TYPE_FIXED32, PROTOBUF_TYPE_SFIXED32 }
            -> tag_encode(1, PROTOBUF_WIRETYPE_FIXED32) \o fixed_encode(v)
      [] field_type \in { PROTOBUF_TYPE_FIXED64, PROTOBUF_TYPE_SFIXED64 }
            -> tag_encode(1, PROTOBUF_WIRETYPE_FIXED64) \o fixed_encode(v)

\* the limbs the values are put together from
Limbs32 == { 0, 1, 127, 128, 32767, 32768, 65535 }

Limbs64 == { 0, 1, 32768, 65535 }

\* the values of a type that are encoded
ScalarValues(field_type) ==
    IF field_type = PROTOBUF_TYPE_BOOL THEN { << 0, 0 >>, << 1, 0 >> }
    ELSE IF field_type \in IntegerTypes32 THEN { << a, b >> : a \in Limbs32, b \in Limbs32 }
    ELSE { << a, b, c, d >> : a \in Limbs64, b \in Limbs64, c \in Limbs64, d \in Limbs64 }

\* every value with its encoding
ScalarPackets ==
    [t \in IntegerScalarTypes |->
        { [value |-> v, wire |-> scalar_encode(t, v)] : v \in ScalarValues(t) }]

\* the encoded values dissected as message p.M with field 1 of their type
ScalarRuns ==
    UNION { { [pinfo |-> PInfo(HintM, NoHint, "PT_TCP", <<3, 3>>), table |-> << >>,
               queue |-> << e.wire >>,
               schema |-> [DefaultSchema EXCEPT !.type = t], prefs |-> DefaultPrefs] :
                e \in ScalarPackets[t] } : t \in IntegerScalarTypes }

\* the packets of Queues dissected without message type or as message p.M
DecoderRuns ==
    { [pinfo |-> PInfo(h, NoHint, "PT_TCP", <<3, 3>>), table |-> << >>, queue |-> q,
       schema |-> d, prefs |-> p] :
        h \in {NoHint, HintM}, q \in Queues, d \in { x \in Schemas : SchemaOk(x) },
        p \in Prefs }

\* nested messages of type p.N, a message without fields, in a message p.M
NestedRuns ==
    { [pinfo |-> PInfo(HintM, NoHint, "PT_TCP", <<3, 3>>), table |-> << >>, queue |-> << q >>,
       schema |-> [DefaultSchema EXCEPT !.type = t, !.message_type = "N"],
       prefs |-> DefaultPrefs] :
        q \in { << 10, 2, 8, 1 >>, << 10, 4, 10, 2, 8, 1 >>, << 10, 2, 8, 1, 8, 2 >> },
        t \in { PROTOBUF_TYPE_MESSAGE, PROTOBUF_TYPE_GROUP } }

\* one packet dissected for every way the caller can tell the message type
DispatcherRuns ==
    { [pinfo |-> PInfo(h, m, t, ports), table |-> u, queue |-> << << 8, 1 >> >>,
       schema |-> DefaultSchema, prefs |-> DefaultPrefs] :
        h \in Hints, m \in {NoHint, HintM, << "p", ".", "M" >>}, t \in {"PT_TCP", "PT_UDP"},
        ports \in { <<1, 3>>, <<3, 2>>, <<3, 3>> }, u \in UdpTables }

Init ==
    /\ \E run \in { r \in DecoderRuns : r.pinfo.data = NoHint => r.schema = DefaultSchema }
                  \cup DispatcherRuns \cup ScalarRuns \cup NestedRuns :
          /\ pinfo = run.pinfo
          /\ udp_message_types = run.table
          /\ queue = run.queue
          /\ schema = run.schema
          /\ prefs = run.prefs
          /\ old_udp_port_ranges = Registered(run.table).list
          /\ udp_port = Registered(run.table).table
          /\ report = Registered(run.table).report
    /\ reinit_pc = "idle"
    /\ loading_completed = TRUE
    /\ top_desc = NULL
    /\ udp_lookup = FALSE
    /\ pc = "idle"
    /\ tvb = << >>
    /\ stack = << >>
    /\ tree = << >>
    /\ expert = << >>
    /\ calls = << >>
    /\ msgs = << >>
    /\ archive = << >>

Next ==
    \/ dissect_protobuf
    \/ dissect_field
    \/ dissect_protobuf_message_return

Spec == Init /\ [][Next]_vars

(***************************************************************************)
(* The preferences applied again and again: protobuf_reinit from the       *)
(* state proto_register_protobuf leaves, no packet being dissected.        *)
(***************************************************************************)
ReinitInit ==
    /\ pinfo = PInfo(NoHint, NoHint, "PT_UDP", <<1, 3>>)
    /\ udp_message_types = << >>
    /\ queue = << >>
    /\ schema = DefaultSchema
    /\ prefs = DefaultPrefs
    /\ old_udp_port_ranges = << >>
    /\ udp_port = { }
    /\ report = { }
    /\ reinit_pc = "idle"
    /\ loading_completed = TRUE
    /\ top_desc = NULL
    /\ udp_lookup = FALSE
    /\ pc = "idle"
    /\ tvb = << >>
    /\ stack = << >>
    /\ tree = << >>
    /\ expert = << >>
    /\ calls = << >>
    /\ msgs = << >>
    /\ archive = << >>

ReinitNext ==
    \/ protobuf_reinit
    \/ protobuf_reinit_delete
    \/ protobuf_reinit_add

ReinitSpec == ReinitInit /\ [][ReinitNext]_vars

(***************************************************************************)
(* What the properties below speak of.                                     *)
(***************************************************************************)
Finished == pc \in {"done", "exception"}

\* the length of the varint encoded at offset, read off the bytes alone
RECURSIVE EncodedVarintLen(_, _)
EncodedVarintLen(buf, offset) ==
    IF offset >= Len(buf) THEN 0
    ELSE IF buf[offset + 1] < 128 THEN 1
    ELSE LET rest == EncodedVarintLen(buf, offset + 1)
         IN  IF rest = 0 THEN 0 ELSE 1 + rest

\* the 64-bit value v is the natural number n (n < 2^31)
U64IsNat(v, n) == v = << n % 65536, n \div 65536, 0, 0 >>

\* the calls of dissect_one_protobuf_field that returned TRUE
Succeeded == { i \in DOMAIN calls : calls[i].ret = "TRUE" }

\* node i lies in the byte range of node p
InRangeOf(i, p) ==
    /\ tree[p].start <= tree[i].start
    /\ tree[i].start + tree[i].length <= tree[p].start + tree[p].length

\* the Message node that encloses node i
RECURSIVE MessageOf(_)
MessageOf(i) ==
    IF i = 0 THEN 0
    ELSE IF tree[i].hf = "protobuf.message" THEN i
    ELSE MessageOf(tree[i].parent)

DeclaredFailures ==
    { "failed_parse_tag", "wire_type_invalid", "failed_parse_length_delimited_field",
      "failed_parse_field", "message_type_not_found", "wire_type_not_support_packed_repeated",
      "failed_parse_packed_repeated_field" }

\* the nodes of the Field item ti_field: the item and its children
FieldNodes(ti_field) == { ti_field } \cup { i \in DOMAIN tree : tree[i].parent = ti_field }

\* an expert info of a declared kind is attached to the field
HasDiagnostic(ti_field) ==
    \E e \in DOMAIN expert :
        expert[e].kind \in DeclaredFailures /\ expert[e].node \in FieldNodes(ti_field)

(***************************************************************************)
(* C1.  A call of the field decoder that returns success advances the      *)
(* cursor by the length of the tag varint, plus the length of the length   *)
(* prefix varint for LENGTH_DELIMITED, plus the value length: 8 for        *)
(* FIXED64, 4 for FIXED32, the varint's length for VARINT and the whole    *)
(* 64-bit length prefix for LENGTH_DELIMITED.                              *)
(***************************************************************************)
C1_ConsumedBytes ==
    \A i \in Succeeded :
        LET c == calls[i]
            tag_len == EncodedVarintLen(tvb, c.start)
            value_at == c.start + tag_len
            prefix_len == EncodedVarintLen(tvb, value_at)
            advance == c.end - c.start
        IN  CASE c.wire_type = PROTOBUF_WIRETYPE_FIXED64 -> advance = tag_len + 8
              [] c.wire_type = PROTOBUF_WIRETYPE_FIXED32 -> advance = tag_len + 4
              [] c.wire_type = PROTOBUF_WIRETYPE_VARINT -> advance = tag_len + prefix_len
              [] c.wire_type = PROTOBUF_WIRETYPE_LENGTH_DELIMITED ->
                    /\ advance >= tag_len + prefix_len
                    /\ U64IsNat(varint_value(tvb, value_at, prefix_len),
                                advance - tag_len - prefix_len)
              [] OTHER -> FALSE

(***************************************************************************)
(* C2.  When a packet has been dissected, every node lies in the byte      *)
(* range of its parent node and of the message it was emitted for.         *)
(***************************************************************************)
C2_NodesInRange ==
    pc = "done" =>
        \A i \in DOMAIN tree :
            /\ tree[i].parent # 0 => InRangeOf(i, tree[i].parent)
            /\ MessageOf(tree[i].parent) # 0 => InRangeOf(i, MessageOf(tree[i].parent))

(***************************************************************************)
(* C3.  Dissecting a packet, cut short or not, ends normally: no read      *)
(* fails, every field that did not decode carries one of the seven         *)
(* declared expert infos, and every value item lies within the packet.     *)
(***************************************************************************)
C3_TruncationSafety ==
    /\ pc # "exception"
    /\ \A i \in DOMAIN calls :
          calls[i].ret = "FALSE" => HasDiagnostic(calls[i].ti_field)
    /\ \A i \in DOMAIN tree : tree[i].start + tree[i].length <= Len(tvb) \/ tree[i].value = << >>

(***************************************************************************)
(* C4.  dissect_protobuf_message ends with the cursor at the end of its    *)
(* range when no field failed, and never with the cursor beyond the end    *)
(* (the cursor of a message that a failed field halted is taken to be at   *)
(* most, not strictly below, the end).                                     *)
(***************************************************************************)
C4_TerminalStates ==
    \A i \in DOMAIN msgs :
        /\ msgs[i].offset <= msgs[i].max_offset
        /\ ~msgs[i].failed => msgs[i].offset = msgs[i].max_offset

(***************************************************************************)
(* C5.  Dissecting a packet terminates: every call of the field decoder    *)
(* that returns success has advanced the cursor by at least one byte,      *)
(* every nested message starts after the first byte of the field that      *)
(* holds it, the nesting is never deeper than the packet is long, and      *)
(* every packet handed to dissect_protobuf is eventually done with.        *)
(***************************************************************************)
C5_Progress ==
    /\ \A i \in Succeeded : calls[i].end >= calls[i].start + 1
    /\ \A d \in DOMAIN stack :
          d > 1 => stack[d].start > calls[stack[d].caller.call].start
    /\ Len(stack) - 1 <= Len(tvb)

\* how many steps a message whose cursor is at offset can still take, the
\* messages nested in it included: a field takes one step and leaves the cursor
\* at least one byte further, in this message and in the message it holds
StepsLeft(offset) == 3 * 2^(IF offset < Len(tvb) THEN Len(tvb) - offset ELSE 0) - 1

FrameSteps(frame) == IF frame.failed THEN 1 ELSE StepsLeft(frame.offset)

RECURSIVE StackSteps(_)
StackSteps(d) == IF d = 0 THEN 0 ELSE FrameSteps(stack[d]) + StackSteps(d - 1)

RECURSIVE QueueSteps(_)
QueueSteps(q) == IF q = << >> THEN 0 ELSE 3 * 2^Len(Head(q)) + QueueSteps(Tail(q))

\* a bound on the number of steps still to come
Variant == QueueSteps(queue) + StackSteps(Len(stack))

C5_Termination == [](C5_Progress /\ Variant >= 0) /\ [][Variant' < Variant]_vars

\* a packet is done with after a message nested in a nested message was dissected
C5_Witness ==
    /\ pc = "done"
    /\ queue = << >>
    /\ \E i \in DOMAIN msgs : msgs[i].depth >= 3
    /\ Succeeded # {}

(***************************************************************************)
(* The compatibility table as the specification gives it, and the typed    *)
(* leaves of a field.                                                      *)
(***************************************************************************)
CompatibilityRow(wire_type) ==
    CASE wire_type = PROTOBUF_WIRETYPE_VARINT ->
            { PROTOBUF_TYPE_INT32, PROTOBUF_TYPE_INT64, PROTOBUF_TYPE_UINT32,
              PROTOBUF_TYPE_UINT64, PROTOBUF_TYPE_SINT32, PROTOBUF_TYPE_SINT64,
              PROTOBUF_TYPE_BOOL, PROTOBUF_TYPE_ENUM }
      [] wire_type = PROTOBUF_WIRETYPE_FIXED64 ->
            { PROTOBUF_TYPE_FIXED64, PROTOBUF_TYPE_SFIXED64, PROTOBUF_TYPE_DOUBLE }
      [] wire_type = PROTOBUF_WIRETYPE_LENGTH_DELIMITED ->
            { PROTOBUF_TYPE_STRING, PROTOBUF_TYPE_BYTES, PROTOBUF_TYPE_MESSAGE,
              PROTOBUF_TYPE_GROUP }
      [] wire_type = PROTOBUF_WIRETYPE_FIXED32 ->
            { PROTOBUF_TYPE_FIXED32, PROTOBUF_TYPE_SFIXED32, PROTOBUF_TYPE_FLOAT }
      [] OTHER -> {}

TypedHfs == { value_hf(t) : t \in FieldTypes } \ { NULL }

\* the Field item that node i of the tree tr belongs to
RECURSIVE FieldOf(_, _)
FieldOf(tr, i) ==
    IF i = 0 THEN 0
    ELSE IF tr[i].hf = "protobuf.field" THEN i
    ELSE FieldOf(tr, tr[i].parent)

TypedLeaves(ti_field) ==
    { i \in DOMAIN tree : tree[i].hf \in TypedHfs /\ FieldOf(tree, i) = ti_field }

\* the field types named in the text of the Field item
TypesInText(ti_field) == { tree[ti_field].text[k] : k \in DOMAIN tree[ti_field].text }

\* dissect_packed_repeated_field_values was called for the field
ExpanderInvoked(ti_field) ==
    \E i \in DOMAIN tree :
        tree[i].hf = "protobuf.field.value.repeated" /\ FieldOf(tree, i) = ti_field

\* the calls for a field without descriptor while every field type is tried
ShowAllCalls ==
    { i \in Succeeded : prefs.show_all_possible_field_types /\ ~calls[i].found }

(***************************************************************************)
(* C6.  A decoded field whose descriptor declares a type that is not in    *)
(* the row of its wire type gets an expert info and no item of the         *)
(* declared type, while the cursor moves on by what the wire type says.    *)
(***************************************************************************)
C6_IncompatibleDeclaredType ==
    \A i \in Succeeded :
        LET c == calls[i]
        IN  (c.found /\ c.field_type \notin CompatibilityRow(c.wire_type))
            => /\ HasDiagnostic(c.ti_field)
               /\ TypedLeaves(c.ti_field) = {}
               /\ c.field_type \notin TypesInText(c.ti_field)
               /\ c.end = c.start + c.tag_length + c.value_length_size + c.value_length

(***************************************************************************)
(* C7.  When every field type is tried for a field without descriptor,     *)
(* the field types the value is shown as are those of the row of the       *)
(* specification's table for the wire type.                                *)
(***************************************************************************)
C7_ShowAllRow ==
    \A i \in ShowAllCalls :
        TypesInText(calls[i].ti_field) = CompatibilityRow(calls[i].wire_type)

(***************************************************************************)
(* C8 as claimed.  When every field type is tried for a field without      *)
(* descriptor, the value subtree holds one typed leaf for every field      *)
(* type of the row.                                                        *)
(***************************************************************************)
C8_OneLeafPerType ==
    \A i \in ShowAllCalls :
        Cardinality(TypedLeaves(calls[i].ti_field))
            = Cardinality(CompatibilityRow(calls[i].wire_type))

(***************************************************************************)
(* C8 amended.  When every field type is tried for a field without         *)
(* descriptor, a varint yields eight typed leaves when it is one byte      *)
(* long and seven, none of them a bool, when it is longer; a fixed-width   *)
(* value yields three; a length-delimited value yields string leaves       *)
(* only: one, or two when dissect_bytes_as_string is set.                  *)
(***************************************************************************)
C8_LeavesOfShowAll ==
    \A i \in ShowAllCalls :
        LET c == calls[i]
            leaves == TypedLeaves(c.ti_field)
            bools == { l \in leaves : tree[l].hf = "protobuf.field.value.bool" }
        IN  CASE c.wire_type = PROTOBUF_WIRETYPE_VARINT ->
                    /\ Cardinality(leaves) = (IF c.value_length = 1 THEN 8 ELSE 7)
                    /\ Cardinality(bools) = (IF c.value_length = 1 THEN 1 ELSE 0)
              [] c.wire_type \in {PROTOBUF_WIRETYPE_FIXED64, PROTOBUF_WIRETYPE_FIXED32} ->
                    Cardinality(leaves) = 3
              [] c.wire_type = PROTOBUF_WIRETYPE_LENGTH_DELIMITED ->
                    /\ Cardinality(leaves) = (IF prefs.dissect_bytes_as_string THEN 2 ELSE 1)
                    /\ \A l \in leaves : tree[l].hf = "protobuf.field.value.string"
              [] OTHER -> FALSE

\* the two-byte varint 96 01 and a length-delimited value have been dissected
\* with every field type tried
C8_Witness ==
    /\ pc = "done"
    /\ \E i \in ShowAllCalls :
          /\ calls[i].wire_type = PROTOBUF_WIRETYPE_VARINT
          /\ calls[i].value_length = 2
          /\ Cardinality(TypedLeaves(calls[i].ti_field)) = 7
    /\ \E i \in ShowAllCalls : calls[i].wire_type = PROTOBUF_WIRETYPE_LENGTH_DELIMITED

(***************************************************************************)
(* C9.  The typed leaves of a repeated field of a primitive type are the   *)
(* same, as a multiset of values, when its elements come in one packed     *)
(* payload and when they come as separate occurrences.                     *)
(***************************************************************************)
ElementTypes(wire_type) ==
    CASE wire_type = PROTOBUF_WIRETYPE_VARINT -> PackedVarintTypes
      [] wire_type = PROTOBUF_WIRETYPE_FIXED64 -> Packed64Types
      [] wire_type = PROTOBUF_WIRETYPE_FIXED32 -> Packed32Types
      [] OTHER -> {}

IsTypedLeaf(tr, i) == tr[i].hf \in TypedHfs

LeafCount(tr, hf, value) ==
    Cardinality({ i \in DOMAIN tr : IsTypedLeaf(tr, i) /\ tr[i].hf = hf /\ tr[i].value = value })

SameLeaves(t1, t2) ==
    \A t \in {t1, t2} : \A i \in DOMAIN t :
        IsTypedLeaf(t, i) => LeafCount(t1, t[i].hf, t[i].value) = LeafCount(t2, t[i].hf, t[i].value)

C9_PackedUnpacked ==
    (/\ Finished
     /\ Len(archive) = 1
     /\ << archive[1].tvb, tvb >> \in PackedPairs
     /\ top_desc = "M"
     /\ schema.is_repeated
     /\ schema.type \in ElementTypes(tvb[1] % 8))
    => SameLeaves(archive[1].tree, tree)

(***************************************************************************)
(* C10.  dissect_packed_repeated_field_values is called only for a field   *)
(* with a descriptor that is repeated and packed and with the wire type    *)
(* LENGTH_DELIMITED; a repeated packed field of another wire type is       *)
(* dissected as one value of its declared type.                            *)
(***************************************************************************)
C10_ExpanderOnlyLengthDelimited ==
    \A i \in DOMAIN calls :
        LET c == calls[i]
        IN  /\ ExpanderInvoked(c.ti_field) =>
                  /\ c.found
                  /\ c.is_packed_repeated
                  /\ c.wire_type = PROTOBUF_WIRETYPE_LENGTH_DELIMITED
            /\ (/\ c.ret = "TRUE"
                /\ c.found
                /\ c.is_packed_repeated
                /\ c.wire_type # PROTOBUF_WIRETYPE_LENGTH_DELIMITED)
               => c.field_type \in TypesInText(c.ti_field)

(***************************************************************************)
(* The packed payload of a call and its outcome in the tree.               *)
(***************************************************************************)
\* where the value of the field of call c starts
ValueStart(c) == c.start + c.tag_length + c.value_length_size

\* varints fill [offset, end) exactly, none of them longer than ten bytes
RECURSIVE VarintsFill(_, _, _)
VarintsFill(buf, offset, end) ==
    \/ offset = end
    \/ /\ offset < end
       /\ LET n == EncodedVarintLen(buf, offset)
          IN  /\ n \in 1..10
              /\ offset + n <= end
              /\ VarintsFill(buf, offset + n, end)

\* the typed leaves under the Repeated item of the field
ElementLeaves(ti_field) ==
    { i \in TypedLeaves(ti_field) : tree[tree[i].parent].hf = "protobuf.field.value.repeated" }

HasExpert(kind, ti_field) ==
    \E e \in DOMAIN expert : expert[e].kind = kind /\ expert[e].node \in FieldNodes(ti_field)

\* the calls that went through dissect_packed_repeated_field_values and returned
ExpandedCalls == { i \in Succeeded : ExpanderInvoked(calls[i].ti_field) }

(***************************************************************************)
(* C11.  When the payload of a packed field of a varint type is not a      *)
(* sequence of whole varints, failed_parse_packed_repeated_field is        *)
(* attached to the field and no element leaf is added; element leaves      *)
(* are added only when the whole payload parsed.                           *)
(***************************************************************************)
C11_PackedVarintFailure ==
    \A i \in ExpandedCalls :
        LET c == calls[i]
            parsed == VarintsFill(tvb, ValueStart(c), ValueStart(c) + c.value_length)
        IN  c.field_type \in PackedVarintTypes =>
               /\ ~parsed => /\ HasExpert("failed_parse_packed_repeated_field", c.ti_field)
                             /\ ElementLeaves(c.ti_field) = {}
               /\ ElementLeaves(c.ti_field) # {} => parsed

(***************************************************************************)
(* C12.  The expansion of a packed field of a fixed-width type (8 bytes    *)
(* for FIXED64, SFIXED64 and DOUBLE, 4 bytes for FIXED32, SFIXED32 and     *)
(* FLOAT) adds length / width element leaves when the payload length is a  *)
(* positive multiple of the width, and otherwise attaches                  *)
(* failed_parse_packed_repeated_field and adds no element leaf.            *)
(***************************************************************************)
C12_PackedFixedStride ==
    \A i \in ExpandedCalls :
        LET c == calls[i]
            stride == IF c.field_type \in Packed64Types THEN 8 ELSE 4
            fits == c.value_length > 0 /\ c.value_length % stride = 0
        IN  c.field_type \in Packed64Types \cup Packed32Types =>
               IF fits
               THEN /\ Cardinality(ElementLeaves(c.ti_field)) = c.value_length \div stride
                    /\ ~HasExpert("failed_parse_packed_repeated_field", c.ti_field)
               ELSE /\ HasExpert("failed_parse_packed_repeated_field", c.ti_field)
                    /\ ElementLeaves(c.ti_field) = {}

(***************************************************************************)
(* C12 amended.  The expansion of a packed field of a fixed-width type     *)
(* that returns has added length / width element leaves and no expert      *)
(* info when the payload length is a multiple of the width, 0 included,    *)
(* and has attached failed_parse_packed_repeated_field and added no        *)
(* element leaf otherwise.                                                 *)
(***************************************************************************)
C12_PackedFixedMultiple ==
    \A i \in ExpandedCalls :
        LET c == calls[i]
            stride == IF c.field_type \in Packed64Types THEN 8 ELSE 4
        IN  c.field_type \in Packed64Types \cup Packed32Types =>
               IF c.value_length % stride = 0
               THEN /\ Cardinality(ElementLeaves(c.ti_field)) = c.value_length \div stride
                    /\ ~HasExpert("failed_parse_packed_repeated_field", c.ti_field)
               ELSE /\ HasExpert("failed_parse_packed_repeated_field", c.ti_field)
                    /\ ElementLeaves(c.ti_field) = {}

\* an empty payload, a payload of one element and a payload of a length that is
\* no multiple have been expanded
C12_Witness ==
    /\ pc = "done"
    /\ schema.type \in Packed32Types
    /\ \E i \in ExpandedCalls :
          \/ calls[i].value_length = 0 /\ ElementLeaves(calls[i].ti_field) = {}
          \/ calls[i].value_length = 4 /\ Cardinality(ElementLeaves(calls[i].ti_field)) = 1
    /\ \E i \in ExpandedCalls : calls[i].value_length % 4 # 0

(***************************************************************************)
(* C13.  A field whose tag has field number 0 or wire type 3, 4, 6 or 7    *)
(* is malformed: dissect_one_protobuf_field returns FALSE, no typed leaf   *)
(* is added for it, no further field of the message is dissected, and an   *)
(* invalid wire type gets the expert info wire_type_invalid.               *)
(***************************************************************************)
InvalidWireTypes == { 3, 4, 6, 7 }

\* the calls whose tag was read
TagCalls == { i \in DOMAIN calls : calls[i].tag_length > 0 }

\* the Message item the field of call i was added to
MessageOfCall(i) == tree[calls[i].ti_field].parent

C13_MalformedTag ==
    \A i \in TagCalls :
        LET c == calls[i]
            number == ShiftRight3(varint_value(tvb, c.start, c.tag_length))
        IN  /\ (number = U64Zero \/ c.wire_type \in InvalidWireTypes) =>
                  /\ c.ret = "FALSE"
                  /\ TypedLeaves(c.ti_field) = {}
                  /\ \A j \in DOMAIN calls : j > i => MessageOfCall(j) # MessageOfCall(i)
            /\ c.wire_type \in InvalidWireTypes => HasExpert("wire_type_invalid", c.ti_field)

(***************************************************************************)
(* The hint of a packet, taken apart at its commas.                        *)
(***************************************************************************)
\* the hint the caller gave: the data argument, or else the pb_msg_type slot
GivenHint == IF pinfo.data # NoHint THEN pinfo.data ELSE pinfo.pb_msg_type

CommasOf(h) == { i \in DOMAIN h : h[i] = "," }

\* the index of the n-th comma of h
NthComma(h, n) ==
    CHOOSE i \in CommasOf(h) : Cardinality({ k \in CommasOf(h) : k <= i }) = n

Dotted(str) == [i \in DOMAIN str |-> IF str[i] = "/" THEN "." ELSE str[i]]

\* the descriptor claimed for a hint that holds a comma:
\* message,<full_name> or <content_type>,[/]<service>/<method>,<direction>
ClaimedDesc(h) ==
    LET first == NthComma(h, 1)
        head == SubSeq(h, 1, first - 1)
        rest == SubSeq(h, first + 1, Len(h))
    IN  IF head = << "m", "e", "s", "s", "a", "g", "e" >>
        THEN pbw_DescriptorPool_FindMessageTypeByName(rest)
        ELSE LET second == NthComma(h, 2)
                 path == SubSeq(h, first + 1, second - 1)
                 direction == SubSeq(h, second + 1, Len(h))
                 stripped == IF path # << >> /\ Head(path) = "/" THEN Tail(path) ELSE path
                 method == pbw_DescriptorPool_FindMethodByName(Dotted(stripped))
             IN  IF ~method.found THEN NULL
                 ELSE IF direction = << "r", "e", "q", "u", "e", "s", "t" >>
                 THEN method.input_type
                 ELSE method.output_type

\* the hints C14 speaks of
IsMessageHint(h) ==
    h # NoHint /\ CommasOf(h) # {} /\ SubSeq(h, 1, NthComma(h, 1) - 1) = << "m", "e", "s", "s", "a", "g", "e" >>

IsMethodHint(h) == h # NoHint /\ ~IsMessageHint(h) /\ Cardinality(CommasOf(h)) = 2

(***************************************************************************)
(* C14.  For a hint message,<full_name> dissect_protobuf dissects the      *)
(* packet as the message of that name; for a hint                          *)
(* <content_type>,[/]<service>/<method>,<direction> as the input type of   *)
(* the method <service>.<method> when the direction is request, and as     *)
(* its output type otherwise.                                              *)
(***************************************************************************)
C14_HintResolution ==
    (pc # "idle" /\ (IsMessageHint(GivenHint) \/ IsMethodHint(GivenHint)))
    => /\ top_desc = ClaimedDesc(GivenHint)
       /\ tree[2].hf = "protobuf.message"
       /\ \A i \in DOMAIN calls : (calls[i].depth = 1 /\ calls[i].found) => top_desc = "M"

\* the packet of a request of method S.m has been dissected as message p.M
C14_Witness ==
    /\ pc = "done"
    /\ pinfo.data = << "a", "/", "g", ",", "/", "S", "/", "m", ",", "r", "e", "q", "u", "e", "s", "t" >>
    /\ top_desc = "M"
    /\ \E i \in DOMAIN calls : calls[i].found

(***************************************************************************)
(* C15.  find_message_type_by_udp_port is called exactly when the caller   *)
(* gave no hint, neither as data nor as pb_msg_type, and the packet came   *)
(* over UDP.  A hint that resolves nothing (no comma, an unknown message,  *)
(* an unknown method, no direction) leaves the packet without message      *)
(* type, over UDP too, and the message is dissected over the whole buffer. *)
(***************************************************************************)
ResolvesNothing(h) ==
    \/ CommasOf(h) = {}
    \/ ~IsMessageHint(h) /\ Cardinality(CommasOf(h)) = 1
    \/ (IsMessageHint(h) \/ IsMethodHint(h)) /\ ClaimedDesc(h) = NULL

C15_UdpMapping ==
    pc # "idle" =>
        /\ udp_lookup = (/\ pinfo.data = NoHint
                         /\ pinfo.pb_msg_type = NoHint
                         /\ pinfo.ptype = "PT_UDP")
        /\ ~udp_lookup /\ GivenHint = NoHint => top_desc = NULL
        /\ GivenHint # NoHint /\ ResolvesNothing(GivenHint) => top_desc = NULL
        /\ tree[2].hf = "protobuf.message" /\ tree[2].start = 0 /\ tree[2].length = Len(tvb)
        /\ \A i \in DOMAIN msgs :
              msgs[i].depth = 1 => msgs[i].start = 0 /\ msgs[i].max_offset = Len(tvb)

\* a packet without hint that came over UDP has been dissected as the message
\* the table gives for its port
C15_Witness ==
    /\ pc = "done"
    /\ udp_lookup
    /\ GivenHint = NoHint
    /\ top_desc = "M"
    /\ \E i \in DOMAIN msgs : msgs[i].depth = 1

(***************************************************************************)
(* C16.  A field that fails halts the message it is in and nothing else:   *)
(* dissect_protobuf returns, no further field of that message is           *)
(* dissected, and when the message is nested the field that holds it has   *)
(* returned TRUE at the end of its value and its message goes on with the  *)
(* field that follows.                                                     *)
(***************************************************************************)
\* the call that dissects the nested message the field of call i is in
EnclosingCalls(i) ==
    { j \in DOMAIN calls : calls[j].ti_field = tree[MessageOfCall(i)].parent }

MessageEnd(m) == tree[m].start + tree[m].length

C16_FailureLocality ==
    /\ pc # "exception"
    /\ \A i \in DOMAIN calls :
          calls[i].ret = "FALSE" =>
             /\ \A k \in DOMAIN calls : k > i => MessageOfCall(k) # MessageOfCall(i)
             /\ pc = "done" =>
                   \A j \in EnclosingCalls(i) :
                      /\ calls[j].ret = "TRUE"
                      /\ calls[j].end = ValueStart(calls[j]) + calls[j].value_length
                      /\ \/ calls[j].end >= MessageEnd(MessageOfCall(j))
                         \/ \E k \in DOMAIN calls :
                               /\ MessageOfCall(k) = MessageOfCall(j)
                               /\ calls[k].start = calls[j].end

(***************************************************************************)
(* C17.  When the expansion of a packed field fails (an element that is    *)
(* no whole varint, a length that is no multiple of the width, a type      *)
(* that cannot be packed), the value item of the field stays without       *)
(* element leaves, dissect_one_protobuf_field returns TRUE with the        *)
(* cursor after the value, and the message goes on with the next field.    *)
(***************************************************************************)
\* the expander was called for call i and its payload does not expand
ExpansionFails(i) ==
    LET c == calls[i]
    IN  /\ ExpanderInvoked(c.ti_field)
        /\ \/ /\ c.field_type \in PackedVarintTypes
              /\ ~VarintsFill(tvb, ValueStart(c), ValueStart(c) + c.value_length)
           \/ /\ c.field_type \in Packed64Types
              /\ c.value_length % 8 # 0
           \/ /\ c.field_type \in Packed32Types
              /\ c.value_length % 4 # 0
           \/ c.field_type \notin PackedVarintTypes \cup Packed64Types \cup Packed32Types

C17_ExpansionFailureLocality ==
    \A i \in DOMAIN calls :
        ExpansionFails(i) =>
           LET c == calls[i]
           IN  /\ c.ret = "TRUE"
               /\ c.end = ValueStart(c) + c.value_length
               /\ \E v \in DOMAIN tree :
                     /\ tree[v].hf = "protobuf.field.value"
                     /\ tree[v].parent = c.ti_field
                     /\ tree[v].start = ValueStart(c)
                     /\ tree[v].length = c.value_length
               /\ ElementLeaves(c.ti_field) = {}
               /\ pc = "done" =>
                     \/ c.end >= MessageEnd(MessageOfCall(i))
                     \/ \E k \in DOMAIN calls :
                           MessageOfCall(k) = MessageOfCall(i) /\ calls[k].start = c.end

\* a packed payload that is no whole varint was followed by a field that was dissected
C17_Witness ==
    /\ pc = "done"
    /\ \E i \in DOMAIN calls :
          /\ ExpansionFails(i)
          /\ calls[i].field_type \in PackedVarintTypes
          /\ calls[i].wire_type = PROTOBUF_WIRETYPE_LENGTH_DELIMITED
          /\ \E k \in Succeeded :
                MessageOfCall(k) = MessageOfCall(i) /\ calls[k].start = calls[i].end

(***************************************************************************)
(* C18.  Field 1 of an integer type or BOOL, not packed, holding the       *)
(* encoding of a value v of that type, is dissected to one typed leaf of   *)
(* the type's kind with the value v: a negative INT32, ten bytes on the    *)
(* wire, gives the same negative value, and zig-zag decoding undoes        *)
(* zig-zag encoding at 32 and at 64 bits.                                  *)
(***************************************************************************)
\* the values whose encoding as field 1 of the declared type is the packet
ValuesOfPacket == { e \in ScalarPackets[schema.type] : e.wire = tvb }

C18_IntegerRoundTrip ==
    ( /\ pc = "done"
      /\ top_desc = "M"
      /\ schema.type \in IntegerScalarTypes
      /\ ~is_packed_repeated(schema) ) =>
        \A e \in ValuesOfPacket :
            /\ Len(calls) = 1
            /\ calls[1].ret = "TRUE"
            /\ \E leaf \in TypedLeaves(calls[1].ti_field) :
                  /\ TypedLeaves(calls[1].ti_field) = { leaf }
                  /\ tree[leaf].hf = value_hf(schema.type)
                  /\ tree[leaf].value = e.value
            /\ schema.type = PROTOBUF_TYPE_SINT32 =>
                  sint32_decode(zigzag_encode(e.value)) = e.value
            /\ schema.type = PROTOBUF_TYPE_SINT64 =>
                  sint64_decode(zigzag_encode(e.value)) = e.value

\* -2^31 as INT32 has been dissected from its ten bytes
C18_Witness ==
    /\ pc = "done"
    /\ top_desc = "M"
    /\ ~is_packed_repeated(schema)
    /\ schema.type = PROTOBUF_TYPE_INT32
    /\ tvb = << 8, 128, 128, 128, 128, 248, 255, 255, 255, 255, 1 >>
    /\ \E e \in ValuesOfPacket : e.value = << 0, 32768 >>

(***************************************************************************)
(* C19.  The Field items of a message stand in the tree in the order of    *)
(* their tags in the packet, one Field item for every field dissected,     *)
(* also when a field number comes again; the typed leaves of a Field item  *)
(* lie in its own bytes; the element leaves of a packed field stand in     *)
(* the order of their offsets.                                             *)
(***************************************************************************)
\* the calls that added a Field item
ItemCalls == { i \in DOMAIN calls : calls[i].ti_field > 0 }

\* the Field items of the tree
FieldItems == { n \in DOMAIN tree : tree[n].hf = "protobuf.field" }

\* the field number read by call i
FieldNumberOf(i) == ShiftRight3(varint_value(tvb, calls[i].start, calls[i].tag_length))

C19_StreamOrder ==
    /\ \A i \in ItemCalls :
          /\ calls[i].ti_field \in FieldItems
          /\ tree[calls[i].ti_field].start = calls[i].start
          /\ \A k \in ItemCalls :
                i < k =>
                   /\ calls[i].ti_field < calls[k].ti_field
                   /\ MessageOfCall(i) = MessageOfCall(k) =>
                         /\ calls[i].start < calls[k].start
                         /\ \A leaf \in TypedLeaves(calls[i].ti_field) :
                               /\ leaf < calls[k].ti_field
                               /\ tree[leaf].start + tree[leaf].length <= calls[k].start
                         /\ \A leaf \in TypedLeaves(calls[k].ti_field) :
                               tree[leaf].start > calls[k].start
    /\ \A n \in FieldItems : \E i \in ItemCalls : calls[i].ti_field = n
    /\ \A a, b \in DOMAIN tree :
          ( /\ a < b
            /\ IsTypedLeaf(tree, a)
            /\ IsTypedLeaf(tree, b)
            /\ tree[a].parent = tree[b].parent
            /\ tree[tree[a].parent].hf = "protobuf.field.value.repeated" ) =>
                tree[a].start < tree[b].start

\* field 1 has come twice, the first time packed with two elements
C19_Witness ==
    /\ pc = "done"
    /\ \E i, k \in ItemCalls :
          /\ i < k
          /\ MessageOfCall(i) = MessageOfCall(k)
          /\ FieldNumberOf(i) = FieldNumberOf(k)
          /\ calls[i].ret = "TRUE"
          /\ calls[k].ret = "TRUE"
          /\ Cardinality(ElementLeaves(calls[i].ti_field)) = 2
          /\ TypedLeaves(calls[k].ti_field) # {}

(***************************************************************************)
(* C20.  A boolean leaf shows false iff the value read for the field is    *)
(* 0.  A field declared BOOL whose value has more than one byte gets no    *)
(* typed leaf and no expert info, and is dissected with success.           *)
(***************************************************************************)
\* the boolean leaves added for the value of a field itself, not for a packed element
BoolLeaves(ti_field) ==
    { n \in TypedLeaves(ti_field) \ ElementLeaves(ti_field) :
        tree[n].hf = "protobuf.field.value.bool" }

\* the calls that dissected a field declared BOOL, not packed
DeclaredBoolCalls ==
    { i \in Succeeded :
        calls[i].found /\ calls[i].field_type = PROTOBUF_TYPE_BOOL /\ ~calls[i].is_packed_repeated }

C20_BoolRendering ==
    /\ \A i \in Succeeded :
          \A n \in BoolLeaves(calls[i].ti_field) :
              /\ calls[i].value_length <= 1
              /\ (tree[n].value = << 0, 0 >>) <=> (calls[i].value_uint64 = U64Zero)
    /\ \A i \in DeclaredBoolCalls :
          IF calls[i].value_length > 1
          THEN /\ TypedLeaves(calls[i].ti_field) = {}
               /\ ~HasDiagnostic(calls[i].ti_field)
          ELSE Cardinality(BoolLeaves(calls[i].ti_field)) = 1

(***************************************************************************)
(* C21.  A field found in the schema as MESSAGE or GROUP, not packed, has  *)
(* its value dissected as a message of the field's message type: a         *)
(* Message item under the Field item over the bytes of the value, whose    *)
(* fields are looked up in that type.  When the field has no message type, *)
(* message_type_not_found is added to the Field item, no Message item and  *)
(* no Field item come under it, and the value item stays.                  *)
(***************************************************************************)
\* the calls that went to the MESSAGE and GROUP case of protobuf_dissect_field_value
NestedCalls ==
    { i \in DOMAIN calls :
        /\ calls[i].ret \in { "TRUE", "CALL" }
        /\ calls[i].found
        /\ calls[i].field_type \in { PROTOBUF_TYPE_MESSAGE, PROTOBUF_TYPE_GROUP }
        /\ ~calls[i].is_packed_repeated }

\* the Message items under the Field item
MessagesUnder(ti_field) ==
    { m \in DOMAIN tree : tree[m].hf = "protobuf.message" /\ tree[m].parent = ti_field }

\* the value item of the Field item: the value as bytes
ValueItems(i) ==
    { v \in DOMAIN tree :
        /\ tree[v].hf = "protobuf.field.value"
        /\ tree[v].parent = calls[i].ti_field
        /\ tree[v].start = ValueStart(calls[i])
        /\ tree[v].length = calls[i].value_length }

C21_NestedMessage ==
    \A i \in NestedCalls :
        /\ ValueItems(i) # {}
        /\ IF schema.message_type # NULL
           THEN /\ ~HasExpert("message_type_not_found", calls[i].ti_field)
                /\ \E m \in MessagesUnder(calls[i].ti_field) :
                      /\ MessagesUnder(calls[i].ti_field) = { m }
                      /\ tree[m].start = ValueStart(calls[i])
                      /\ tree[m].length = calls[i].value_length
                      /\ \A k \in ItemCalls :
                            MessageOfCall(k) = m =>
                               /\ calls[k].depth = calls[i].depth + 1
                               /\ calls[k].found <=>
                                     ( /\ schema.message_type = "M"
                                       /\ Low32(FieldNumberOf(k)) = << 1, 0 >> )
           ELSE /\ HasExpert("message_type_not_found", calls[i].ti_field)
                /\ MessagesUnder(calls[i].ti_field) = {}
                /\ \A k \in ItemCalls : FieldOf(tree, tree[calls[k].ti_field].parent)
                                           # calls[i].ti_field
                /\ calls[i].ret = "TRUE"

\* a nested message of a type without fields has been dissected, its field not found
C21_Witness ==
    /\ pc = "done"
    /\ schema.message_type = "N"
    /\ \E i \in NestedCalls :
          /\ calls[i].ret = "TRUE"
          /\ \E k \in Succeeded :
                /\ MessageOfCall(k) \in MessagesUnder(calls[i].ti_field)
                /\ ~calls[k].found

(***************************************************************************)
(* C22.  The field descriptor of a field is the one of the whole field     *)
(* number read from the tag: the schema knows field number 1 only, so a    *)
(* descriptor is found for field number 1 and for no other, 2^32 + 1       *)
(* included.                                                               *)
(***************************************************************************)
\* the message type the field of call i is looked up in
DescOfCall(i) == IF calls[i].depth = 1 THEN top_desc ELSE schema.message_type

C22_WholeFieldNumber ==
    \A i \in ItemCalls :
        calls[i].found <=> (DescOfCall(i) = "M" /\ FieldNumberOf(i) = << 1, 0, 0, 0 >>)

(***************************************************************************)
(* C23.  A packed field of a 32-bit type in a LENGTH_DELIMITED value that  *)
(* lies whole in the packet, its length a multiple of 4, is expanded by    *)
(* reads within the value: no read fails, the field is dissected with      *)
(* success, and every four bytes give an element leaf with the value of    *)
(* the little-endian read of these four bytes.                             *)
(***************************************************************************)
\* the calls for a packed 32-bit field whose payload lies whole in the packet
Packed32Calls ==
    { i \in ItemCalls :
        /\ calls[i].found
        /\ calls[i].is_packed_repeated
        /\ calls[i].field_type \in Packed32Types
        /\ calls[i].wire_type = PROTOBUF_WIRETYPE_LENGTH_DELIMITED
        /\ calls[i].value_length_size > 0
        /\ calls[i].value_length % 4 = 0
        /\ ValueStart(calls[i]) + calls[i].value_length <= Len(tvb) }

C23_Packed32Reads ==
    \A i \in Packed32Calls :
        LET c == calls[i]
        IN  /\ c.ret = "TRUE"
            /\ \A e \in 0..((c.value_length \div 4) - 1) :
                  \E leaf \in ElementLeaves(c.ti_field) :
                      /\ tree[leaf].start = ValueStart(c) + 4 * e
                      /\ tree[leaf].length = 4
                      /\ tree[leaf].value =
                            << tvb[tree[leaf].start + 1] + 256 * tvb[tree[leaf].start + 2],
                               tvb[tree[leaf].start + 3] + 256 * tvb[tree[leaf].start + 4] >>

(***************************************************************************)
(* C24.  Whenever protobuf_reinit is not running and has run, the ports    *)
(* that lead to the dissector are those of the ranges of the table it ran  *)
(* with, and old_udp_port_ranges holds one copy of the range of every      *)
(* record that has one, in the order of the table, whether the files       *)
(* were loaded or not.  Before it adds the new ranges, no port of the old  *)
(* ones leads to the dissector any more.                                   *)
(***************************************************************************)
\* the records of the table that have a range
RECURSIVE RangesOf(_)
RangesOf(types) ==
    IF types = << >> THEN << >>
    ELSE (IF Head(types).udp_port_range # NoRange THEN << Head(types).udp_port_range >>
          ELSE << >>) \o RangesOf(Tail(types))

PortsOf(types) == UNION { RangesOf(types)[k] : k \in DOMAIN RangesOf(types) }

C24_RegisteredRanges ==
    /\ reinit_pc = "idle" =>
          /\ udp_port = PortsOf(udp_message_types)
          /\ old_udp_port_ranges = RangesOf(udp_message_types)
    /\ reinit_pc = "add" =>
          /\ udp_port = { }
          /\ old_udp_port_ranges = << >>

\* the table has been changed from one with ranges to another, the files not loaded
C24_Witness ==
    /\ reinit_pc = "idle"
    /\ ~loading_completed
    /\ udp_port = { 3 }
    /\ Len(udp_message_types) = 2
    /\ Len(old_udp_port_ranges) = 1

====
